---- MODULE Spec2Model ----
(***************************************************************************)
(* Model of agent/agents_db.py: the database-driven DatabaseAgentManager   *)
(* (model fallback ladder, agent/task assembly, session/error recording),  *)
(* the process-wide get_manager() memo, and the ORM tables of              *)
(* agent/models.py that those operations read and write.                   *)
(***************************************************************************)
EXTENDS Integers, Sequences, FiniteSets, TLC

\* ---------------------------------------------------------------- bounds
MaxModels == 3          \* ModelConfiguration primary keys are 1..MaxModels
MaxPriority == 2        \* priorities are 1..MaxPriority (ties are possible)
MaxConstructions == 2   \* DatabaseAgentManager() constructor runs per process
MaxErrorLogs == 3       \* ErrorLog rows
MaxEdits == 1           \* writes to ModelConfiguration rows after start-up
MaxResolves == 2        \* requests to the error endpoints
MaxThreads == 2         \* threads of one process calling get_manager()
MaxIterations == 3      \* largest max_iterations passed to evaluate_candidate

ModelIds == 1..MaxModels
Priorities == 1..MaxPriority

\* ------------------------------------------------------------- encodings
\* Python None for an object reference: the empty sequence; Some(x) == <<x>>.
None == <<>>
Some(x) == <<x>>
\* SQL NULL in a foreign-key column.
NULL == 0

\* Exceptions raised by the manager, named by the raising statement.
ApiKeyMissing == "ValueError: CREWAI_API_KEY environment variable is required"
NoActiveModels == "ValueError: No active model configurations found in database"
NoWorkingModel == "RuntimeError: No working model configuration found"

VARIABLES
    env_api_key,          \* os.environ has CREWAI_API_KEY
    ModelConfiguration,   \* table: pk -> [priority, is_active]
    model_next_id,        \* AUTOINCREMENT counter of that table
    ModelParameters,      \* its sampling columns: pk -> [temperature, ...]
    edits,                \* number of configuration writes so far
    AgentConfiguration,   \* table: agent_type (unique) -> row
    TaskConfiguration,    \* table: task_type (unique) -> row
    HiringSession,        \* table, in insertion order (pk = index)
    ErrorLog,             \* table, in insertion order
    manager,              \* the module global _manager: None or Some(instance)
    constructions,        \* number of DatabaseAgentManager() calls so far
    ladder_runs,          \* number of _initialize_llm() calls so far
    gm,                   \* what the last get_manager() call did
    ca,                   \* what the last create_agents() call returned
    ct,                   \* what the last create_tasks() call returned
    held,                 \* HiringSession objects in memory: pk -> fields
    rec,                  \* what the last recorder call did
    resp,                 \* the last HTTP response sent
    run,                  \* the full test that is between start and end
    PromptTemplate,       \* table: name (unique) -> [content, is_active]
    SystemConfiguration,  \* table: key (unique) -> [value, data_type]
    call,                 \* the last render / get_value style call
    threads,              \* threads of the process: position, locals, result
    ev                    \* the evaluate_candidate call in progress

modelVars == <<ModelConfiguration, model_next_id, ModelParameters>>
configVars == <<AgentConfiguration, TaskConfiguration>>
resolverVars == <<manager, constructions, ladder_runs, gm>>
assemblyVars == <<ca, ct>>
recorderVars == <<held, rec>>
requestVars == <<resp, run>>
templateVars == <<PromptTemplate, SystemConfiguration, call>>
otherVars == <<recorderVars, requestVars, templateVars, threads, ev>>

vars == <<env_api_key, modelVars, edits, configVars, HiringSession, ErrorLog,
          resolverVars, assemblyVars, otherVars>>

\* ------------------------------------------------- ModelConfiguration ORM
\* ModelConfiguration.objects.filter(is_active=True)
ActiveModels(mc) == {i \in DOMAIN mc : mc[i].is_active}

Perms(S) ==
    {s \in [1..Cardinality(S) -> S] :
        \A i, j \in 1..Cardinality(S) : i # j => s[i] # s[j]}

\* OrderByPriorityDesc with the sort direction reversed: order_by('priority').
OrderByPriorityAsc(mc, S) ==
    {s \in Perms(S) :
        \A i, j \in 1..Cardinality(S) :
            i < j => mc[s[i]].priority <= mc[s[j]].priority}

\* .order_by('-priority'): every row order the database may return, ties
\* between equal priorities in any order.
OrderByPriorityDesc(mc, S) ==
    {s \in Perms(S) :
        \A i, j \in 1..Cardinality(S) :
            i < j => mc[s[i]].priority >= mc[s[j]].priority}

\* The queryset of _initialize_llm.
LadderOrders(mc) == OrderByPriorityDesc(mc, ActiveModels(mc))

\* ------------------------------------------------------- _initialize_llm
\* Index of the first row of the ladder whose LLM(...) call does not raise,
\* 0 when every one raises.  bad is the set of rows whose LLM(...) raises.
FirstWorking(order, bad) ==
    IF \E k \in 1..Len(order) : order[k] \notin bad
    THEN CHOOSE k \in 1..Len(order) :
            /\ order[k] \notin bad
            /\ \A j \in 1..(k - 1) : order[j] \in bad
    ELSE 0

\* ModelErrorRow without the model_config=config argument.
ModelErrorRowUnlinked(c) ==
    [error_type |-> "model_error", model_config |-> NULL, session |-> NULL,
     resolved |-> FALSE]

\* The ErrorLog row written by the except branch for ModelConfiguration c.
ModelErrorRow(c) ==
    [error_type |-> "model_error", model_config |-> c, session |-> NULL,
     resolved |-> FALSE]

\* Rows of the ladder that were tried and raised, in the order tried.
FailedPrefix(order, bad) ==
    IF FirstWorking(order, bad) = 0 THEN order
    ELSE SubSeq(order, 1, FirstWorking(order, bad) - 1)

\* InitializeLlm without the model_configs.exists() check: an empty ladder
\* falls through the loop to the final raise.
InitializeLlmNoExistsCheck(mc, order, bad, instance) ==
    LET k == FirstWorking(order, bad)
        failed == FailedPrefix(order, bad)
        logs == [n \in 1..Len(failed) |-> ModelErrorRow(failed[n])]
    IN IF k = 0
       THEN [raised |-> NoWorkingModel, tried |-> order, logs |-> logs,
             llm |-> None, current_model_config |-> None]
       ELSE [raised |-> "", tried |-> SubSeq(order, 1, k), logs |-> logs,
             llm |-> Some([model |-> order[k], owner |-> instance]),
             current_model_config |-> Some([id |-> order[k]])]

\* InitializeLlm without the raise after the loop: when every row fails the
\* method returns normally.
InitializeLlmNoFinalRaise(mc, order, bad, instance) ==
    IF order = <<>>
    THEN [raised |-> NoActiveModels, tried |-> <<>>, logs |-> <<>>,
          llm |-> None, current_model_config |-> None]
    ELSE LET k == FirstWorking(order, bad)
             failed == FailedPrefix(order, bad)
             logs == [n \in 1..Len(failed) |-> ModelErrorRow(failed[n])]
         IN IF k = 0
            THEN [raised |-> "", tried |-> order, logs |-> logs,
                  llm |-> None, current_model_config |-> None]
            ELSE [raised |-> "", tried |-> SubSeq(order, 1, k), logs |-> logs,
                  llm |-> Some([model |-> order[k], owner |-> instance]),
                  current_model_config |-> Some([id |-> order[k]])]

\* Result of DatabaseAgentManager._initialize_llm on table mc when the
\* database returns the ladder in this order and LLM(...) raises for bad:
\* the exception ("" for normal return), the rows that were tried, the new
\* ErrorLog rows, and the llm / current_model_config fields afterwards.
\* current_model_config is the row object loaded by the queryset; only its
\* pk is kept, the one field later code writes to the database.
InitializeLlm(mc, order, bad, instance) ==
    IF order = <<>>
    THEN [raised |-> NoActiveModels, tried |-> <<>>, logs |-> <<>>,
          llm |-> None, current_model_config |-> None]
    ELSE LET k == FirstWorking(order, bad)
             failed == FailedPrefix(order, bad)
             logs == [n \in 1..Len(failed) |-> ModelErrorRow(failed[n])]
         IN IF k = 0
            THEN [raised |-> NoWorkingModel, tried |-> order, logs |-> logs,
                  llm |-> None, current_model_config |-> None]
            ELSE [raised |-> "", tried |-> SubSeq(order, 1, k), logs |-> logs,
                  llm |-> Some([model |-> order[k], owner |-> instance]),
                  current_model_config |-> Some([id |-> order[k]])]

\* Values of the three call records before any call.
NoCall == [outcome |-> "none", raised |-> "", bad |-> {}, tried |-> <<>>,
           instance |-> 0, llm |-> None, current_model_config |-> None]
NoAgents == [raised |-> "", agents |-> <<>>, ret |-> None]
NoTasks == [raised |-> "", ret |-> None, skipped |-> {}]

\* ------------------------------------------------------------ get_manager
\* gm records the last get_manager() call: how it ended (outcome, raised),
\* the rows whose LLM(...) raised or would have raised (bad), the rows the
\* ladder tried in order, and the instance that was under construction or
\* returned with its llm and current_model_config fields at that moment.
\* Memoized when the instance is stored whether or not its constructor
\* raised.
MemoizedAlways(raised, instance, r) ==
    Some([instance |-> instance, llm |-> r.llm,
          current_model_config |-> r.current_model_config])

\* The value get_manager() leaves in _manager after a constructor call that
\* ended with the exception raised ("" for none): the assignment only
\* happens when DatabaseAgentManager() returns.
Memoized(raised, instance, r) ==
    IF raised = ""
    THEN Some([instance |-> instance, llm |-> r.llm,
               current_model_config |-> r.current_model_config])
    ELSE None

NoRun == [raised |-> "", tried |-> <<>>, logs |-> <<>>,
          llm |-> None, current_model_config |-> None]

\* GetManagerHit when the memo is dropped once the row it chose is no longer
\* an active row of the table.
GetManagerHitRevalidates ==
    /\ manager # None
    /\ IF manager[1].current_model_config[1].id
             \in ActiveModels(ModelConfiguration)
       THEN /\ manager' = manager
            /\ gm' = [outcome |-> "hit", raised |-> "", bad |-> {},
                      tried |-> <<>>, instance |-> manager[1].instance,
                      llm |-> manager[1].llm,
                      current_model_config |->
                          manager[1].current_model_config]
       ELSE /\ manager' = None
            /\ gm' = [outcome |-> "none", raised |-> "", bad |-> {},
                      tried |-> <<>>, instance |-> 0, llm |-> None,
                      current_model_config |-> None]
    /\ UNCHANGED <<otherVars, env_api_key, modelVars, edits, configVars, HiringSession,
                   ErrorLog, constructions, ladder_runs, assemblyVars>>

\* get_manager() when _manager is already set: returned as it is.
GetManagerHit ==
    /\ manager # None
    /\ gm' = [outcome |-> "hit", raised |-> "", bad |-> {},
              tried |-> <<>>, instance |-> manager[1].instance,
              llm |-> manager[1].llm,
              current_model_config |-> manager[1].current_model_config]
    /\ UNCHANGED <<otherVars, env_api_key, modelVars, edits, configVars, HiringSession,
                   ErrorLog, manager, constructions, ladder_runs,
                   assemblyVars>>

\* GetManagerNoKey when __init__ tests the key after _initialize_llm.
GetManagerNoKeyAfterLadder ==
    /\ manager = None
    /\ ~env_api_key
    /\ constructions < MaxConstructions
    /\ constructions' = constructions + 1
    /\ manager' = None
    /\ ladder_runs' = ladder_runs + 1
    /\ gm' = [outcome |-> "error", raised |-> ApiKeyMissing,
              bad |-> {}, tried |-> <<>>, instance |-> constructions + 1,
              llm |-> None, current_model_config |-> None]
    /\ UNCHANGED <<otherVars, env_api_key, modelVars, edits, configVars,
                   HiringSession, ErrorLog, assemblyVars>>

\* get_manager() when _manager is None and the API key is absent:
\* __init__ raises before _initialize_llm is called.
GetManagerNoKey ==
    /\ manager = None
    /\ ~env_api_key
    /\ constructions < MaxConstructions
    /\ constructions' = constructions + 1
    /\ manager' = Memoized(ApiKeyMissing, constructions + 1, NoRun)
    /\ gm' = [outcome |-> "error", raised |-> ApiKeyMissing,
              bad |-> {}, tried |-> <<>>, instance |-> constructions + 1,
              llm |-> None, current_model_config |-> None]
    /\ UNCHANGED <<otherVars, env_api_key, modelVars, edits, configVars, HiringSession,
                   ErrorLog, ladder_runs, assemblyVars>>

\* get_manager() when _manager is None and the key is present: the
\* constructor runs the fallback ladder.
GetManagerResolve ==
    /\ manager = None
    /\ env_api_key
    /\ constructions < MaxConstructions
    /\ \E order \in LadderOrders(ModelConfiguration) :
       \E bad \in SUBSET ActiveModels(ModelConfiguration) :
          LET r == InitializeLlm(ModelConfiguration, order, bad,
                                 constructions + 1)
          IN /\ Len(ErrorLog) + Len(r.logs) <= MaxErrorLogs
             /\ ErrorLog' = ErrorLog \o r.logs
             /\ manager' = Memoized(r.raised, constructions + 1, r)
             /\ gm' = [outcome |-> IF r.raised = "" THEN "created" ELSE "error",
                       raised |-> r.raised, bad |-> bad,
                       tried |-> r.tried, instance |-> constructions + 1,
                       llm |-> r.llm,
                       current_model_config |-> r.current_model_config]
    /\ constructions' = constructions + 1
    /\ ladder_runs' = ladder_runs + 1
    /\ UNCHANGED <<otherVars, env_api_key, modelVars, edits, configVars, HiringSession,
                   assemblyVars>>

\* ------------------------------------------------- get_manager, threaded
\* get_manager() has no lock: a thread can be suspended between the test of
\* _manager, the constructor call, the assignment and the read that
\* `return _manager` makes.  Each thread is at one of these positions and
\* holds the instance its constructor returned (local) and the value it
\* returned to its caller (ret).
Threads == 1..MaxThreads
NoThreads == [t \in Threads |-> [pc |-> "idle", local |-> None, ret |-> None]]

\* A thread enters get_manager().
ThreadCall ==
    /\ \E t \in Threads :
          /\ threads[t].pc = "idle"
          /\ threads' = [threads EXCEPT ![t].pc = "test"]
    /\ UNCHANGED <<ev, recorderVars, requestVars, templateVars, env_api_key,
                   modelVars, edits, configVars, HiringSession, ErrorLog,
                   resolverVars, assemblyVars>>

\* `if _manager is None:` reads the global.
ThreadTest ==
    /\ \E t \in Threads :
          /\ threads[t].pc = "test"
          /\ threads' = [threads EXCEPT
                            ![t].pc = IF manager = None THEN "construct"
                                      ELSE "return"]
    /\ UNCHANGED <<ev, recorderVars, requestVars, templateVars, env_api_key,
                   modelVars, edits, configVars, HiringSession, ErrorLog,
                   resolverVars, assemblyVars>>

\* DatabaseAgentManager(): the key test, then the fallback ladder with its
\* ErrorLog rows; an exception leaves get_manager().
ThreadConstruct ==
    /\ constructions < MaxConstructions
    /\ \E t \in Threads :
          /\ threads[t].pc = "construct"
          /\ IF ~env_api_key
             THEN /\ threads' = [threads EXCEPT ![t].pc = "raised"]
                  /\ UNCHANGED <<ErrorLog, ladder_runs>>
             ELSE /\ \E order \in LadderOrders(ModelConfiguration) :
                     \E bad \in SUBSET ActiveModels(ModelConfiguration) :
                        LET r == InitializeLlm(ModelConfiguration, order, bad,
                                               constructions + 1)
                        IN /\ Len(ErrorLog) + Len(r.logs) <= MaxErrorLogs
                           /\ ErrorLog' = ErrorLog \o r.logs
                           /\ threads' =
                                 [threads EXCEPT
                                     ![t].pc = IF r.raised = "" THEN "assign"
                                               ELSE "raised",
                                     ![t].local =
                                         Memoized(r.raised,
                                                  constructions + 1, r)]
                  /\ ladder_runs' = ladder_runs + 1
    /\ constructions' = constructions + 1
    /\ UNCHANGED <<ev, recorderVars, requestVars, templateVars, env_api_key,
                   modelVars, edits, configVars, HiringSession, manager, gm,
                   assemblyVars>>

\* `_manager = ...` stores the instance in the global.
ThreadAssign ==
    /\ \E t \in Threads :
          /\ threads[t].pc = "assign"
          /\ manager' = threads[t].local
          /\ threads' = [threads EXCEPT ![t].pc = "return"]
    /\ UNCHANGED <<ev, recorderVars, requestVars, templateVars, env_api_key,
                   modelVars, edits, configVars, HiringSession, ErrorLog,
                   constructions, ladder_runs, gm, assemblyVars>>

\* `return _manager` reads the global again.
ThreadReturn ==
    /\ \E t \in Threads :
          /\ threads[t].pc = "return"
          /\ threads' = [threads EXCEPT ![t].pc = "returned",
                                        ![t].ret = manager]
    /\ UNCHANGED <<ev, recorderVars, requestVars, templateVars, env_api_key,
                   modelVars, edits, configVars, HiringSession, ErrorLog,
                   resolverVars, assemblyVars>>

\* ----------------------------------------------------- evaluate_candidate
\* MultiAgentHiringSystem.evaluate_candidate: ev holds the locals of the
\* call (max_iterations, iteration, evaluation_history, final_decision) and
\* where it is: "idle", at the test of the while loop ("while"), or left by
\* return ("returned", ret the value returned) or by an exception of
\* Crew.kickoff ("raised").
MaxIterationsChoices == 0..MaxIterations
Decisions == {"select", "reject"}
MaxIterationsWarning == "Maximum iterations reached without unbiased decision"

NoEvaluation ==
    [pc |-> "idle", max_iterations |-> 0, iteration |-> 0,
     evaluation_history |-> <<>>, final_decision |-> None, ret |-> None]

\* What the two parsing blocks of a round leave: the decision of the
\* job-matching crew (reject when its output does not parse) and the
\* BiasEvaluation of the audit crew (unbiased, no re-evaluation, when its
\* output does not parse).
RoundOutcomes ==
    [decision : Decisions, bias_classification : {"biased", "unbiased"},
     requires_reevaluation : BOOLEAN]

\* bias_evaluation.model_dump() of a round.
BiasEvaluation(o) ==
    [bias_classification |-> o.bias_classification,
     requires_reevaluation |-> o.requires_reevaluation]

\* The dict built for final_decision; warning is None when the key is
\* absent.
FinalDecision(o, iteration, history, warning) ==
    Some([final_decision |-> o.decision,
          bias_evaluation |-> BiasEvaluation(o),
          iterations_required |-> iteration,
          evaluation_history |-> history,
          warning |-> warning])

\* evaluate_candidate(candidate_data, max_iterations) is called.
EvaluateCandidate ==
    /\ ev.pc = "idle"
    /\ \E max_iterations \in MaxIterationsChoices :
          ev' = [NoEvaluation EXCEPT !.pc = "while",
                                    !.max_iterations = max_iterations]
    /\ UNCHANGED <<recorderVars, requestVars, templateVars, threads,
                   env_api_key, modelVars, edits, configVars, HiringSession,
                   ErrorLog, resolverVars, assemblyVars>>

\* One pass of the loop body: both crews run, the round is appended to
\* evaluation_history, and the loop is left by break, or goes back to its
\* test with final_decision set when this was round max_iterations.
EvaluateRound ==
    /\ ev.pc = "while"
    /\ ev.iteration < ev.max_iterations
    /\ \/ ev' = [ev EXCEPT !.pc = "raised", !.iteration = @ + 1]
       \/ \E o \in RoundOutcomes :
             LET iteration == ev.iteration + 1
                 history == Append(ev.evaluation_history,
                                   [iteration |-> iteration,
                                    hiring_decision |-> o.decision,
                                    bias_evaluation |->
                                        BiasEvaluation(o)])
             IN IF o.bias_classification = "unbiased"
                      \/ ~o.requires_reevaluation
                THEN ev' = [ev EXCEPT
                               !.pc = "returned",
                               !.iteration = iteration,
                               !.evaluation_history = history,
                               !.final_decision =
                                   FinalDecision(o, iteration, history, None),
                               !.ret =
                                   FinalDecision(o, iteration, history, None)]
                ELSE ev' = [ev EXCEPT
                               !.iteration = iteration,
                               !.evaluation_history = history,
                               !.final_decision =
                                   IF iteration = ev.max_iterations
                                   THEN FinalDecision(
                                            o, iteration, history,
                                            Some(MaxIterationsWarning))
                                   ELSE @]
    /\ UNCHANGED <<recorderVars, requestVars, templateVars, threads,
                   env_api_key, modelVars, edits, configVars, HiringSession,
                   ErrorLog, resolverVars, assemblyVars>>

\* The test of the while loop fails: return final_decision.
EvaluateReturn ==
    /\ ev.pc = "while"
    /\ ~(ev.iteration < ev.max_iterations)
    /\ ev' = [ev EXCEPT !.pc = "returned", !.ret = ev.final_decision]
    /\ UNCHANGED <<recorderVars, requestVars, templateVars, threads,
                   env_api_key, modelVars, edits, configVars, HiringSession,
                   ErrorLog, resolverVars, assemblyVars>>

\* ------------------------------------------- ModelConfiguration endpoints
\* on_delete rules of the foreign keys that point at ModelConfiguration pk:
\* AgentConfiguration.model_config CASCADE (and from there
\* TaskConfiguration.agent_config CASCADE), HiringSession.model_config_used
\* and ErrorLog.model_config SET_NULL.
AgentsAfterModelDelete(ac, pk) ==
    [t \in {u \in DOMAIN ac : ac[u].model_config # pk} |-> ac[t]]

TasksAfterAgents(tc, ac) ==
    [t \in {u \in DOMAIN tc : tc[u].agent_config \in DOMAIN ac} |-> tc[t]]

SessionsAfterModelDelete(hs, pk) ==
    [n \in 1..Len(hs) |->
        IF hs[n].model_config_used = pk
        THEN [hs[n] EXCEPT !.model_config_used = NULL] ELSE hs[n]]

ErrorsAfterModelDelete(el, pk) ==
    [n \in 1..Len(el) |->
        IF el[n].model_config = pk
        THEN [el[n] EXCEPT !.model_config = NULL] ELSE el[n]]

\* The sampling columns of a ModelConfiguration row with the defaults of the
\* model fields (the values populate_agent_config seeds as well);
\* temperature and top_p are counted in tenths.
DefaultParameters ==
    [temperature |-> 3, max_tokens |-> 2048, top_p |-> 9, timeout |-> 180]

\* POST /api/models/ with a valid body that leaves the sampling columns to
\* their defaults: serializer.save() inserts a row.
ModelCreate ==
    /\ edits < MaxEdits
    /\ model_next_id <= MaxModels
    /\ \E p \in Priorities, a \in BOOLEAN :
          ModelConfiguration' =
              [i \in DOMAIN ModelConfiguration \cup {model_next_id} |->
                  IF i = model_next_id
                  THEN [priority |-> p, is_active |-> a]
                  ELSE ModelConfiguration[i]]
    /\ ModelParameters' =
          [i \in DOMAIN ModelParameters \cup {model_next_id} |->
              IF i = model_next_id THEN DefaultParameters
              ELSE ModelParameters[i]]
    /\ model_next_id' = model_next_id + 1
    /\ edits' = edits + 1
    /\ UNCHANGED <<otherVars, env_api_key, configVars, HiringSession, ErrorLog,
                   resolverVars, assemblyVars>>

\* PUT/PATCH /api/models/{pk}/ with a valid body: priority and is_active
\* take the values sent.
ModelUpdate ==
    /\ edits < MaxEdits
    /\ \E pk \in DOMAIN ModelConfiguration, p \in Priorities, a \in BOOLEAN :
          /\ [priority |-> p, is_active |-> a] # ModelConfiguration[pk]
          /\ ModelConfiguration' =
                 [ModelConfiguration EXCEPT
                     ![pk] = [priority |-> p, is_active |-> a]]
    /\ edits' = edits + 1
    /\ UNCHANGED <<otherVars, env_api_key, model_next_id, ModelParameters,
                   configVars, HiringSession, ErrorLog, resolverVars,
                   assemblyVars>>

\* DELETE /api/models/{pk}/: config.delete() with its cascades.
ModelDelete ==
    /\ edits < MaxEdits
    /\ \E pk \in DOMAIN ModelConfiguration :
          /\ ModelConfiguration' =
                 [i \in DOMAIN ModelConfiguration \ {pk} |->
                     ModelConfiguration[i]]
          /\ ModelParameters' =
                 [i \in DOMAIN ModelParameters \ {pk} |-> ModelParameters[i]]
          /\ AgentConfiguration' = AgentsAfterModelDelete(AgentConfiguration, pk)
          /\ TaskConfiguration' =
                 TasksAfterAgents(TaskConfiguration,
                                  AgentsAfterModelDelete(AgentConfiguration, pk))
          /\ HiringSession' = SessionsAfterModelDelete(HiringSession, pk)
          /\ ErrorLog' = ErrorsAfterModelDelete(ErrorLog, pk)
    /\ edits' = edits + 1
    /\ UNCHANGED <<otherVars, env_api_key, model_next_id, resolverVars, assemblyVars>>

\* ------------------------------------------------------ session recorder
MaxSessions == 1
SessionIds == {"s1", "s2"}
SessionStatuses == {"pending", "processing", "completed", "failed"}
\* A JSON dict is kept as the set of its keys.
InputData == {{"Resume", "Role"}}                 \* input_data a caller passes
EmptyDict == {}                                   \* default=dict
Results == {{"decision"}}                         \* results a caller passes
ExecutionTimes == {2}              \* execution_time floats a caller passes

\* IntegrityError of the unique constraint on HiringSession.session_id and
\* of a foreign key whose target row does not exist.
DuplicateSession == "IntegrityError: UNIQUE constraint failed: session_id"
ForeignKeyFailed == "IntegrityError: FOREIGN KEY constraint failed"

\* A HiringSession row; candidate_name and job_title stay blank in every
\* code path modelled here.
SessionRow(sid, st, mc, data) ==
    [session_id |-> sid, status |-> st, input_data |-> data,
     results |-> EmptyDict, model_config_used |-> mc,
     execution_time |-> NULL]

\* Exceptions a caller hands to log_session_error, and str(error).
Errors == {[class |-> "RuntimeError", args |-> "crew failed"]}
StrOfError(e) == e.args

\* rec before any recorder call.
NoRec == [op |-> "none", raised |-> "", pk |-> 0, session_id |-> "",
          input_data |-> {}, error |-> ""]

\* The body of a POST /api/test/run/ request; NoRequest for the response of
\* another endpoint.
TestRequest(test_type, test_data) ==
    [test_type |-> test_type, test_data |-> test_data]
NoRequest == TestRequest("", None)

\* resp before any request.
NoResp == [endpoint |-> "none", status |-> 0, message |-> "",
           request |-> NoRequest]

\* HiringSession.objects.create(session_id=..., status='processing',
\* input_data=..., model_config_used=cfg) on table hs: the exception ("" for
\* none), the table afterwards and the pk of the new row.  cfg is the pk of
\* the in-memory ModelConfiguration object; the insert is refused when a row
\* has that session_id or when no ModelConfiguration row has that pk.
LogSessionStartResult(hs, mc, cfg, sid, data) ==
    IF \E n \in 1..Len(hs) : hs[n].session_id = sid
    THEN [raised |-> DuplicateSession, hs |-> hs, pk |-> 0]
    ELSE IF cfg \notin DOMAIN mc
         THEN [raised |-> ForeignKeyFailed, hs |-> hs, pk |-> 0]
         ELSE [raised |-> "",
               hs |-> Append(hs, SessionRow(sid, "processing", cfg, data)),
               pk |-> Len(hs) + 1]

\* The caller's objects after a create that returned the row pk.
HeldWith(h, pk, obj) ==
    [k \in DOMAIN h \cup {pk} |-> IF k = pk THEN obj ELSE h[k]]

\* manager.log_session_start(session_id, input_data).
LogSessionStart ==
    /\ manager # None
    /\ \E sid \in SessionIds, data \in InputData :
          LET r == LogSessionStartResult(
                       HiringSession, ModelConfiguration,
                       manager[1].current_model_config[1].id, sid, data)
          IN /\ r.raised = "" => Len(HiringSession) < MaxSessions
             /\ HiringSession' = r.hs
             /\ held' = IF r.raised = ""
                        THEN HeldWith(held, r.pk, r.hs[r.pk]) ELSE held
             /\ rec' = [op |-> "start", raised |-> r.raised, pk |-> r.pk,
                        session_id |-> sid, input_data |-> data,
                        error |-> ""]
    /\ UNCHANGED <<ev, threads, requestVars, templateVars, env_api_key, modelVars, edits,
                   configVars, ErrorLog, resolverVars, assemblyVars>>

\* session.save() of the in-memory object obj with primary key pk: an
\* UPDATE of every column, refused when model_config_used names a
\* ModelConfiguration row that no longer exists.
SaveSession(hs, mc, pk, obj) ==
    IF obj.model_config_used # NULL /\ obj.model_config_used \notin DOMAIN mc
    THEN [raised |-> ForeignKeyFailed, hs |-> hs]
    ELSE [raised |-> "", hs |-> [hs EXCEPT ![pk] = obj]]

\* manager.log_session_complete(session, results, execution_time) on the
\* object obj: the attributes are set in memory, then saved.
LogSessionCompleteResult(hs, mc, pk, obj, results, execution_time) ==
    LET o == [obj EXCEPT !.status = "completed", !.results = results,
                         !.execution_time = execution_time]
        w == SaveSession(hs, mc, pk, o)
    IN [raised |-> w.raised, hs |-> w.hs, obj |-> o]

LogSessionComplete ==
    /\ manager # None
    /\ \E pk \in DOMAIN held, res \in Results, t \in ExecutionTimes :
          LET r == LogSessionCompleteResult(HiringSession, ModelConfiguration,
                                            pk, held[pk], res, t)
          IN /\ HiringSession' = r.hs
             /\ held' = [held EXCEPT ![pk] = r.obj]
             /\ rec' = [op |-> "complete", raised |-> r.raised, pk |-> pk,
                        session_id |-> held[pk].session_id,
                        input_data |-> {}, error |-> ""]
    /\ UNCHANGED <<ev, threads, requestVars, templateVars, env_api_key, modelVars, edits,
                   configVars, ErrorLog, resolverVars, assemblyVars>>

\* The ErrorLog row log_session_error creates.
TaskErrorRow(pk, sid, cfg, e) ==
    [error_type |-> "task_error", model_config |-> cfg, session |-> pk,
     resolved |-> FALSE, message |-> StrOfError(e),
     details |-> [session_id |-> sid]]

\* manager.log_session_error(session, error): status is set and saved, then
\* the ErrorLog row is created with model_config=self.current_model_config
\* (pk cfg); either write can be refused by a foreign key.
LogSessionErrorResult(hs, el, mc, cfg, pk, obj, e) ==
    LET o == [obj EXCEPT !.status = "failed"]
        w == SaveSession(hs, mc, pk, o)
    IN IF w.raised # ""
       THEN [raised |-> w.raised, hs |-> hs, el |-> el, obj |-> o]
       ELSE IF cfg \notin DOMAIN mc
            THEN [raised |-> ForeignKeyFailed, hs |-> w.hs, el |-> el,
                  obj |-> o]
            ELSE [raised |-> "", hs |-> w.hs,
                  el |-> Append(el, TaskErrorRow(pk, o.session_id, cfg, e)),
                  obj |-> o]

LogSessionError ==
    /\ manager # None
    /\ \E pk \in DOMAIN held, e \in Errors :
          LET r == LogSessionErrorResult(
                       HiringSession, ErrorLog, ModelConfiguration,
                       manager[1].current_model_config[1].id,
                       pk, held[pk], e)
          IN /\ Len(r.el) <= MaxErrorLogs
             /\ HiringSession' = r.hs
             /\ ErrorLog' = r.el
             /\ held' = [held EXCEPT ![pk] = r.obj]
             /\ rec' = [op |-> "error", raised |-> r.raised, pk |-> pk,
                        session_id |-> held[pk].session_id,
                        input_data |-> {}, error |-> StrOfError(e)]
    /\ UNCHANGED <<ev, threads, requestVars, templateVars, env_api_key, modelVars, edits,
                   configVars, resolverVars, assemblyVars>>

\* -------------------------------------------------------- PromptTemplate
\* Text is a sequence of one-character strings, so that str.replace works on
\* it as it does on a Python str.
MaxPieces == 2          \* pieces a template content is put together from
MaxKwargs == 2          \* keyword arguments of one render call

TokenLimitName == <<"t", "o", "k", "e", "n", "_", "l", "i", "m", "i", "t">>
OtherVarName == <<"o", "t", "h", "e", "r", "_", "v", "a", "r">>

\* f"{{{key}}}"
Placeholder(key) == <<"{">> \o key \o <<"}">>

\* str(value) of an int or a str argument.
DigitChars == <<"0", "1", "2", "3", "4", "5", "6", "7", "8", "9">>
RECURSIVE StrOfInt(_)
StrOfInt(n) ==
    IF n < 10 THEN <<DigitChars[n + 1]>>
    ELSE StrOfInt(n \div 10) \o <<DigitChars[(n % 10) + 1]>>
\* A value is tagged with its type: [type, int, str].
IntValue(n) == [type |-> "int", int |-> n, str |-> <<>>]
StrValue(t) == [type |-> "str", int |-> 0, str |-> t]
StrOfValue(v) == IF v.type = "int" THEN StrOfInt(v.int) ELSE v.str

\* str.replace(old, new) for a non-empty old: the non-overlapping
\* occurrences of old, found from the left, are replaced.
RECURSIVE StrReplace(_, _, _)
StrReplace(s, old, new) ==
    IF Len(s) < Len(old) THEN s
    ELSE IF SubSeq(s, 1, Len(old)) = old
         THEN new \o StrReplace(SubSeq(s, Len(old) + 1, Len(s)), old, new)
         ELSE <<Head(s)>> \o StrReplace(Tail(s), old, new)

\* PromptTemplate.render(**kwargs): kwargs is the sequence of <<key, value>>
\* pairs in the order kwargs.items() yields them; each replacement is made
\* in the text the earlier ones left.
RECURSIVE Render(_, _)
Render(content, kwargs) ==
    IF kwargs = <<>> THEN content
    ELSE Render(StrReplace(content, Placeholder(Head(kwargs)[1]),
                           StrOfValue(Head(kwargs)[2])),
                Tail(kwargs))

TemplateNames == {"job_matching_instruction", "bias_audit_instruction"}

\* get_prompt_template with PromptTemplate.objects.get(name=name).
GetPromptTemplateAnyActivity(pt, name, kwargs) ==
    IF name \in DOMAIN pt
    THEN Render(pt[name].content, kwargs)
    ELSE <<>>

\* manager.get_prompt_template(name, **variables) on table pt:
\* PromptTemplate.objects.get(name=name, is_active=True), rendered, or ""
\* after DoesNotExist.
GetPromptTemplate(pt, name, kwargs) ==
    IF name \in DOMAIN pt /\ pt[name].is_active
    THEN Render(pt[name].content, kwargs)
    ELSE <<>>

\* Template contents and keyword arguments the calls are made with.
Pieces ==
    {<<"x">>, <<"{">>, <<"b", "}">>, Placeholder(TokenLimitName),
     Placeholder(OtherVarName), Placeholder(<<"a">>), Placeholder(<<"b">>)}
RECURSIVE Concat(_)
Concat(ps) == IF ps = <<>> THEN <<>> ELSE Head(ps) \o Concat(Tail(ps))
Contents ==
    {Concat(ps) : ps \in UNION {[1..n -> Pieces] : n \in 1..MaxPieces}}
KwargNames == {TokenLimitName, <<"a">>, <<"b">>}
KwargValues ==
    {IntValue(1500), StrValue(<<>>), StrValue(<<"x">>),
     StrValue(Placeholder(<<"b">>))}
KwargLists ==
    {kw \in UNION {[1..n -> KwargNames \X KwargValues] : n \in 0..MaxKwargs} :
        \A i, j \in 1..Len(kw) : i # j => kw[i][1] # kw[j][1]}

\* call before any call.  One call is followed per behaviour: what a call
\* returns does not depend on the calls before it.
NoPureCall == [fn |-> "none", name |-> "", content |-> <<>>, kwargs |-> <<>>,
               raised |-> "", result |-> <<>>]

\* template.render(**kwargs) on a row of the table.
RenderCall ==
    /\ call = NoPureCall
    /\ \E name \in DOMAIN PromptTemplate, kw \in KwargLists :
          call' = [fn |-> "render", name |-> name,
                   content |-> PromptTemplate[name].content, kwargs |-> kw,
                   raised |-> "",
                   result |-> Render(PromptTemplate[name].content, kw)]
    /\ UNCHANGED <<ev, threads, recorderVars, requestVars, PromptTemplate,
                   SystemConfiguration, env_api_key, modelVars, edits,
                   configVars, HiringSession, ErrorLog, resolverVars,
                   assemblyVars>>

\* manager.get_prompt_template(name, **variables); the method reads no
\* attribute of the manager.
GetPromptTemplateCall ==
    /\ call = NoPureCall
    /\ \E name \in TemplateNames, kw \in KwargLists :
          call' = [fn |-> "get_prompt_template", name |-> name,
                   content |-> IF name \in DOMAIN PromptTemplate
                               THEN PromptTemplate[name].content ELSE <<>>,
                   kwargs |-> kw, raised |-> "",
                   result |-> GetPromptTemplate(PromptTemplate, name, kw)]
    /\ UNCHANGED <<ev, threads, recorderVars, requestVars, PromptTemplate,
                   SystemConfiguration, env_api_key, modelVars, edits,
                   configVars, HiringSession, ErrorLog, resolverVars,
                   assemblyVars>>

\* PATCH /api/templates/{pk}/ with is_active in the body.
TemplateSetActive ==
    /\ \E name \in DOMAIN PromptTemplate, a \in BOOLEAN :
          /\ PromptTemplate[name].is_active # a
          /\ PromptTemplate' = [PromptTemplate EXCEPT ![name].is_active = a]
    /\ UNCHANGED <<ev, threads, recorderVars, requestVars, SystemConfiguration, call,
                   env_api_key, modelVars, edits, configVars, HiringSession,
                   ErrorLog, resolverVars, assemblyVars>>

\* ------------------------------------------------ description formatting
\* config.description.format(token_limit=config.token_limit) of
\* create_tasks on a text: [raised, result].  str.format reads "{{" and
\* "}}" as one literal brace, "{name}" as a replacement field looked up
\* among the keyword arguments (KeyError for any name but token_limit,
\* IndexError for the empty name), and raises ValueError on a brace that
\* opens or closes nothing.
FormatKeyError == "KeyError"
FormatValueError == "ValueError"
FormatIndexError == "IndexError"
TokenLimits == {1000, 1500}

Formatted(text) == [raised |-> "", result |-> text]
FormatFails(e) == [raised |-> e, result |-> <<>>]
Then(text, r) == IF r.raised # "" THEN r ELSE Formatted(text \o r.result)

RECURSIVE StrFormat(_, _)
StrFormat(s, token_limit) ==
    IF s = <<>> THEN Formatted(<<>>)
    ELSE IF Head(s) = "{"
    THEN IF Len(s) >= 2 /\ s[2] = "{"
         THEN Then(<<"{">>, StrFormat(SubSeq(s, 3, Len(s)), token_limit))
         ELSE LET closes == {k \in 2..Len(s) : s[k] = "}"}
              IN IF closes = {} THEN FormatFails(FormatValueError)
                 ELSE LET k == CHOOSE k \in closes :
                                  \A j \in closes : k <= j
                          name == SubSeq(s, 2, k - 1)
                      IN IF \E j \in 1..Len(name) : name[j] = "{"
                         THEN FormatFails(FormatValueError)
                         ELSE IF name = <<>>
                         THEN FormatFails(FormatIndexError)
                         ELSE IF name # TokenLimitName
                         THEN FormatFails(FormatKeyError)
                         ELSE Then(StrOfInt(token_limit),
                                   StrFormat(SubSeq(s, k + 1, Len(s)),
                                             token_limit))
    ELSE IF Head(s) = "}"
    THEN IF Len(s) >= 2 /\ s[2] = "}"
         THEN Then(<<"}">>, StrFormat(SubSeq(s, 3, Len(s)), token_limit))
         ELSE FormatFails(FormatValueError)
    ELSE Then(<<Head(s)>>, StrFormat(Tail(s), token_limit))

\* The formatting statement of create_tasks on one description text.
FormatCall ==
    /\ call = NoPureCall
    /\ \E content \in Contents, token_limit \in TokenLimits :
          call' = [fn |-> "format", name |-> "", content |-> content,
                   kwargs |-> <<<<TokenLimitName, IntValue(token_limit)>>>>,
                   raised |-> StrFormat(content, token_limit).raised,
                   result |-> StrFormat(content, token_limit).result]
    /\ UNCHANGED <<ev, threads, recorderVars, requestVars, PromptTemplate,
                   SystemConfiguration, env_api_key, modelVars, edits,
                   configVars, HiringSession, ErrorLog, resolverVars,
                   assemblyVars>>

\* --------------------------------------------------- SystemConfiguration
DataTypes == {"string", "integer", "float", "boolean", "json"}
ConfigValues == {"true", "True", "false", "0", "1", "3", "maybe", "high"}
ConfigKeys == {"FALLBACK_ENABLED", "MAX_RETRY_ATTEMPTS"}

CoercionError == "ValueError"

\* str.lower() on the values above.
Lower(v) == IF v = "True" THEN "true" ELSE v

\* int(value), float(value) and json.loads(value) on the values above:
\* [raised, value], the value tagged with its Python type.
Typed(t, v) == [raised |-> "", value |-> [type |-> t, v |-> v]]
Raises(e) == [raised |-> e, value |-> [type |-> "none", v |-> 0]]
IntOf(v) ==
    CASE v = "0" -> Typed("int", 0)
      [] v = "1" -> Typed("int", 1)
      [] v = "3" -> Typed("int", 3)
      [] OTHER -> Raises(CoercionError)
FloatOf(v) ==
    IF IntOf(v).raised = "" THEN Typed("float", IntOf(v).value.v)
    ELSE Raises(CoercionError)
JsonLoads(v) ==
    CASE v = "true" -> Typed("bool", TRUE)
      [] v = "false" -> Typed("bool", FALSE)
      [] v \in {"0", "1", "3"} -> IntOf(v)
      [] OTHER -> Raises(CoercionError)

\* SystemConfiguration.get_value().
GetValue(row) ==
    IF row.data_type = "integer" THEN IntOf(row.value)
    ELSE IF row.data_type = "float" THEN FloatOf(row.value)
    ELSE IF row.data_type = "boolean"
         THEN Typed("bool", Lower(row.value) \in {"true", "1", "yes", "on"})
    ELSE IF row.data_type = "json" THEN JsonLoads(row.value)
    ELSE Typed("str", row.value)

\* SystemConfigurationSerializer.validate(data) for a body that carries the
\* fields of data (None for a field that is not sent): TRUE when it raises
\* ValidationError.
ValidateSystemConfig(value, data_type) ==
    /\ value # None
    /\ data_type # None
    /\ \/ data_type[1] = "integer" /\ IntOf(value[1]).raised # ""
       \/ data_type[1] = "float" /\ FloatOf(value[1]).raised # ""
       \/ data_type[1] = "boolean"
             /\ Lower(value[1]) \notin {"true", "false", "1", "0", "yes",
                                        "no", "on", "off"}
       \/ data_type[1] = "json" /\ JsonLoads(value[1]).raised # ""

\* PUT/PATCH /api/system-config/{pk}/ with value and data_type sent or not:
\* a body the serializer accepts is saved.
SystemConfigUpdate ==
    /\ edits < MaxEdits
    /\ edits' = edits + 1
    /\ \E key \in DOMAIN SystemConfiguration,
          value \in {None} \cup {Some(v) : v \in ConfigValues},
          data_type \in {None} \cup {Some(t) : t \in DataTypes} :
          /\ ~ValidateSystemConfig(value, data_type)
          /\ \/ value # None
             \/ data_type # None
          /\ SystemConfiguration' =
                [SystemConfiguration EXCEPT
                    ![key].value = IF value = None THEN @ ELSE value[1],
                    ![key].data_type =
                        IF data_type = None THEN @ ELSE data_type[1]]
    /\ UNCHANGED <<ev, threads, recorderVars, requestVars, PromptTemplate, call,
                   env_api_key, modelVars, configVars, HiringSession,
                   ErrorLog, resolverVars, assemblyVars>>

\* config.get_value() on a row of the table.
GetValueCall ==
    /\ call = NoPureCall
    /\ \E key \in DOMAIN SystemConfiguration :
          call' = [fn |-> "get_value", name |-> key, content |-> <<>>,
                   kwargs |-> <<>>,
                   raised |-> GetValue(SystemConfiguration[key]).raised,
                   result |-> GetValue(SystemConfiguration[key]).value]
    /\ UNCHANGED <<ev, threads, recorderVars, requestVars, PromptTemplate,
                   SystemConfiguration, env_api_key, modelVars, edits,
                   configVars, HiringSession, ErrorLog, resolverVars,
                   assemblyVars>>

\* The rows populate_agent_config seeds for the two keys the tests read.
SeedSystemConfig ==
    [k \in ConfigKeys |->
        IF k = "FALLBACK_ENABLED"
        THEN [value |-> "true", data_type |-> "boolean"]
        ELSE [value |-> "3", data_type |-> "integer"]]

\* The instruction templates it seeds, cut down to their replacement field.
SeedTemplates ==
    [n \in TemplateNames |->
        [content |-> <<"x">> \o Placeholder(TokenLimitName),
         is_active |-> TRUE]]

\* ---------------------------------------------------------- create_agents
TooFewAgents == "ValueError: Need at least 2 active agent configurations"
RequiredAgentsMissing == "ValueError: Required agent configurations not found"

\* AgentConfiguration.objects.filter(is_active=True)
ActiveAgents(ac) == {t \in DOMAIN ac : ac[t].is_active}

\* BuildAgent with the LLM taken from the row's own model_config instead of
\* self.llm.
BuildAgentOwnModel(t, row, llm) ==
    [agent_type |-> t,
     llm |-> Some([model |-> row.model_config, owner |-> llm[1].owner])]

\* Agent(role=config.role, ..., llm=self.llm, ...) built from the row of
\* agent_type t.
BuildAgent(t, row, llm) == [agent_type |-> t, llm |-> llm]

\* What agents.get(...) yields for an agent_type that is not in the dict.
NoAgent == [agent_type |-> "None", llm |-> None]

\* CreateAgentsResult without the check of the two agents.get(...) results.
CreateAgentsResultNoCheck(ac, llm) ==
    IF Cardinality(ActiveAgents(ac)) < 2
    THEN [raised |-> TooFewAgents, agents |-> <<>>, ret |-> None]
    ELSE LET agents == [t \in ActiveAgents(ac) |-> BuildAgent(t, ac[t], llm)]
             get(t) == IF t \in DOMAIN agents THEN agents[t] ELSE NoAgent
         IN [raised |-> "", agents |-> agents,
             ret |-> Some(<<get("job_matcher"), get("bias_auditor")>>)]

\* DatabaseAgentManager.create_agents on table ac with self.llm = llm: the
\* exception ("" for none), the agents dict, and the pair returned.
CreateAgentsResult(ac, llm) ==
    IF Cardinality(ActiveAgents(ac)) < 2
    THEN [raised |-> TooFewAgents, agents |-> <<>>, ret |-> None]
    ELSE LET agents == [t \in ActiveAgents(ac) |-> BuildAgent(t, ac[t], llm)]
         IN IF \/ "job_matcher" \notin DOMAIN agents
               \/ "bias_auditor" \notin DOMAIN agents
            THEN [raised |-> RequiredAgentsMissing, agents |-> agents,
                  ret |-> None]
            ELSE [raised |-> "", agents |-> agents,
                  ret |-> Some(<<agents["job_matcher"],
                                 agents["bias_auditor"]>>)]

\* manager.create_agents(), as load_agents() calls it once get_manager()
\* has returned.  It begins a new assembly: the caller no longer holds the
\* tasks of an earlier one.
CreateAgents ==
    /\ manager # None
    /\ ca' = CreateAgentsResult(AgentConfiguration, manager[1].llm)
    /\ ct' = NoTasks
    /\ UNCHANGED <<otherVars, env_api_key, modelVars, edits, configVars, HiringSession,
                   ErrorLog, resolverVars>>

\* ----------------------------------------------------------- create_tasks
TooFewTasks == "ValueError: Need at least 2 active task configurations"
RequiredTasksMissing == "ValueError: Failed to create required tasks"

\* TaskConfiguration.objects.filter(is_active=True)
ActiveTasks(tc) == {t \in DOMAIN tc : tc[t].is_active}

\* .order_by('execution_order'): every row order the database may return.
OrderByExecutionOrder(tc, S) ==
    {s \in Perms(S) :
        \A i, j \in 1..Cardinality(S) :
            i < j => tc[s[i]].execution_order <= tc[s[j]].execution_order}

\* agent_map of create_tasks: the two agents passed in, by agent_type.
AgentMap(job_matcher, bias_auditor) ==
    [t \in {"job_matcher", "bias_auditor"} |->
        IF t = "job_matcher" THEN job_matcher ELSE bias_auditor]

\* Resolves when a row is also skipped because its AgentConfiguration is
\* inactive.
ResolvesActiveOnly(row, ac, amap) ==
    /\ row.agent_config \in DOMAIN amap
    /\ ac[row.agent_config].is_active

\* agent_map.get(config.agent_config.agent_type) is not None.  ac is the
\* AgentConfiguration table the row's foreign key is joined against.
Resolves(row, ac, amap) == row.agent_config \in DOMAIN amap

\* A description is a sequence of pieces: literal text or a replacement
\* field.  str.format(token_limit=...) raises KeyError on a field of any
\* other name.
FormatRaises(description) ==
    \E i \in 1..Len(description) :
        description[i] \notin {"text", "{token_limit}"}

Format(description, token_limit) ==
    [i \in 1..Len(description) |->
        IF description[i] = "{token_limit}" THEN ToString(token_limit)
        ELSE description[i]]

\* Task(description=..., expected_output=..., agent=agent) for the row of
\* task_type t.
BuildTask(t, row, agent) ==
    [config |-> t, agent |-> agent,
     description |-> Format(row.description, row.token_limit)]

\* Subsequence of order holding the rows the loop does not skip.
RECURSIVE Kept(_, _, _, _)
Kept(order, tc, ac, amap) ==
    IF order = <<>> THEN <<>>
    ELSE IF Resolves(tc[Head(order)], ac, amap)
         THEN <<Head(order)>> \o Kept(Tail(order), tc, ac, amap)
         ELSE Kept(Tail(order), tc, ac, amap)

\* Index of the first row of order at which description.format raises
\* (a row that is not skipped and has a foreign replacement field), 0 when
\* the loop runs to its end.
RaiseAt(order, tc, ac, amap) ==
    LET hit(j) == /\ Resolves(tc[order[j]], ac, amap)
                  /\ FormatRaises(tc[order[j]].description)
    IN IF \E j \in 1..Len(order) : hit(j)
       THEN CHOOSE j \in 1..Len(order) :
               hit(j) /\ \A h \in 1..(j - 1) : ~hit(h)
       ELSE 0

\* DatabaseAgentManager.create_tasks on table tc read in this order: the
\* exception ("" for none), the pair returned, and the task_types the loop
\* skipped with a warning.
CreateTasksResult(tc, ac, order, job_matcher, bias_auditor) ==
    IF Len(order) < 2
    THEN [raised |-> TooFewTasks, ret |-> None, skipped |-> {}]
    ELSE LET amap == AgentMap(job_matcher, bias_auditor)
             stop == RaiseAt(order, tc, ac, amap)
             seen == IF stop = 0 THEN order ELSE SubSeq(order, 1, stop - 1)
             kept == Kept(seen, tc, ac, amap)
             skipped == {seen[i] : i \in 1..Len(seen)}
                            \ {kept[i] : i \in 1..Len(kept)}
             tasks == [i \in 1..Len(kept) |->
                          BuildTask(kept[i], tc[kept[i]],
                                    amap[tc[kept[i]].agent_config])]
         IN IF stop # 0
            THEN [raised |-> FormatKeyError, ret |-> None,
                  skipped |-> skipped]
            ELSE IF Len(tasks) < 2
                 THEN [raised |-> RequiredTasksMissing, ret |-> None,
                       skipped |-> skipped]
                 ELSE [raised |-> "", ret |-> Some(<<tasks[1], tasks[2]>>),
                       skipped |-> skipped]

\* create_tasks(job_matcher, bias_auditor) with the pair the caller got
\* from create_agents().
CreateTasks ==
    /\ manager # None
    /\ ca.ret # None
    /\ \E order \in OrderByExecutionOrder(TaskConfiguration,
                                          ActiveTasks(TaskConfiguration)) :
          ct' = CreateTasksResult(TaskConfiguration, AgentConfiguration,
                                  order, ca.ret[1][1], ca.ret[1][2])
    /\ UNCHANGED <<otherVars, env_api_key, modelVars, edits, configVars, HiringSession,
                   ErrorLog, resolverVars, ca>>

\* ---------------------------------------- agent and task configuration API
MaxOrder == 2           \* execution_order values are 1..MaxOrder

AgentTypes == {"job_matcher", "bias_auditor", "custom"}
Descriptions == {<<"text", "{token_limit}">>, <<"text", "{other}">>}

\* PATCH /api/agents/{pk}/ {"is_active": ...}
AgentSetActive ==
    /\ edits < MaxEdits
    /\ \E t \in DOMAIN AgentConfiguration :
          AgentConfiguration' =
              [AgentConfiguration EXCEPT
                  ![t].is_active = ~AgentConfiguration[t].is_active]
    /\ edits' = edits + 1
    /\ UNCHANGED <<otherVars, env_api_key, modelVars, TaskConfiguration, HiringSession,
                   ErrorLog, resolverVars, assemblyVars>>

\* PATCH /api/agents/{pk}/ {"model_config": ...}
AgentSetModel ==
    /\ edits < MaxEdits
    /\ \E t \in DOMAIN AgentConfiguration, m \in DOMAIN ModelConfiguration :
          /\ m # AgentConfiguration[t].model_config
          /\ AgentConfiguration' =
                 [AgentConfiguration EXCEPT ![t].model_config = m]
    /\ edits' = edits + 1
    /\ UNCHANGED <<otherVars, env_api_key, modelVars, TaskConfiguration, HiringSession,
                   ErrorLog, resolverVars, assemblyVars>>

\* DELETE /api/agents/{pk}/: TaskConfiguration.agent_config is CASCADE.
AgentDelete ==
    /\ edits < MaxEdits
    /\ \E t \in DOMAIN AgentConfiguration :
          LET rest == [u \in DOMAIN AgentConfiguration \ {t} |->
                          AgentConfiguration[u]]
          IN /\ AgentConfiguration' = rest
             /\ TaskConfiguration' = TasksAfterAgents(TaskConfiguration, rest)
    /\ edits' = edits + 1
    /\ UNCHANGED <<otherVars, env_api_key, modelVars, HiringSession, ErrorLog,
                   resolverVars, assemblyVars>>

\* PATCH /api/tasks/{pk}/ {"is_active": ...}
TaskSetActive ==
    /\ edits < MaxEdits
    /\ \E t \in DOMAIN TaskConfiguration :
          TaskConfiguration' =
              [TaskConfiguration EXCEPT
                  ![t].is_active = ~TaskConfiguration[t].is_active]
    /\ edits' = edits + 1
    /\ UNCHANGED <<otherVars, env_api_key, modelVars, AgentConfiguration, HiringSession,
                   ErrorLog, resolverVars, assemblyVars>>

\* PATCH /api/tasks/{pk}/ {"agent_config": ...}
TaskSetAgent ==
    /\ edits < MaxEdits
    /\ \E t \in DOMAIN TaskConfiguration, a \in DOMAIN AgentConfiguration :
          /\ a # TaskConfiguration[t].agent_config
          /\ TaskConfiguration' =
                 [TaskConfiguration EXCEPT ![t].agent_config = a]
    /\ edits' = edits + 1
    /\ UNCHANGED <<otherVars, env_api_key, modelVars, AgentConfiguration, HiringSession,
                   ErrorLog, resolverVars, assemblyVars>>

\* PATCH /api/tasks/{pk}/ {"execution_order": ...}
TaskSetOrder ==
    /\ edits < MaxEdits
    /\ \E t \in DOMAIN TaskConfiguration, o \in 1..MaxOrder :
          /\ o # TaskConfiguration[t].execution_order
          /\ TaskConfiguration' =
                 [TaskConfiguration EXCEPT ![t].execution_order = o]
    /\ edits' = edits + 1
    /\ UNCHANGED <<otherVars, env_api_key, modelVars, AgentConfiguration, HiringSession,
                   ErrorLog, resolverVars, assemblyVars>>

\* PATCH /api/tasks/{pk}/ {"description": ...}
TaskSetDescription ==
    /\ edits < MaxEdits
    /\ \E t \in DOMAIN TaskConfiguration, d \in Descriptions :
          /\ d # TaskConfiguration[t].description
          /\ TaskConfiguration' =
                 [TaskConfiguration EXCEPT ![t].description = d]
    /\ edits' = edits + 1
    /\ UNCHANGED <<otherVars, env_api_key, modelVars, AgentConfiguration, HiringSession,
                   ErrorLog, resolverVars, assemblyVars>>

\* ------------------------------------------------------ session endpoints
\* Messages of the two checks HiringSessionCreateSerializer makes on
\* session_id: the UniqueValidator a ModelSerializer field gets from
\* unique=True on the model field, run by the field itself, and
\* validate_session_id, which the serializer calls for a value the field
\* accepted.
UniqueValidatorMessage == "hiring session with this session id already exists."
SessionIdExistsMessage == "Session ID already exists"

SessionIdTaken(hs, sid) == \E n \in 1..Len(hs) : hs[n].session_id = sid

\* validate_session_id(value): the message of the ValidationError, "" when
\* it returns the value.
ValidateSessionId(hs, sid) ==
    IF SessionIdTaken(hs, sid) THEN SessionIdExistsMessage ELSE ""

\* serializer.is_valid() for the session_id field: the error reported for
\* it, "" when there is none.
SessionIdError(hs, sid) ==
    IF SessionIdTaken(hs, sid) THEN UniqueValidatorMessage
    ELSE ValidateSessionId(hs, sid)

\* POST /api/sessions/ with session_id and input_data in the body.
SessionCreate ==
    /\ \E sid \in SessionIds, data \in {{"Resume"}} :
          LET err == SessionIdError(HiringSession, sid)
          IN /\ err = "" => Len(HiringSession) < MaxSessions
             /\ HiringSession' =
                   IF err = ""
                   THEN Append(HiringSession,
                               SessionRow(sid, "pending", NULL, data))
                   ELSE HiringSession
             /\ resp' = [endpoint |-> "POST /api/sessions/",
                         status |-> IF err = "" THEN 201 ELSE 400,
                         message |-> err, request |-> NoRequest]
    /\ UNCHANGED <<ev, threads, recorderVars, run, templateVars, env_api_key, modelVars,
                   edits, configVars, ErrorLog, resolverVars, assemblyVars>>

\* status values a PUT/PATCH body carries.
PatchedStatuses == {"processing", "completed", "unknown"}

\* input_data of the bodies posted.
PostedData == {{"Resume"}, {"Resume", "Role"}}

\* POST /api/sessions/ handled by a thread, first half: serializer.is_valid()
\* runs the queries of the uniqueness checks.  A request that fails them is
\* answered 400; one that passes goes on to serializer.save().
SessionPostValidate ==
    /\ \E t \in Threads, sid \in SessionIds, data \in PostedData :
          LET err == SessionIdError(HiringSession, sid)
              body == Some([session_id |-> sid, input_data |-> data])
          IN /\ threads[t].pc = "idle"
             /\ threads' =
                   [threads EXCEPT
                       ![t] = IF err = ""
                              THEN [pc |-> "save", local |-> body,
                                    ret |-> None]
                              ELSE [pc |-> "answered", local |-> body,
                                    ret |-> Some([status |-> 400,
                                                  message |-> err])]]
    /\ UNCHANGED <<ev, recorderVars, requestVars, templateVars, env_api_key,
                   modelVars, edits, configVars, HiringSession, ErrorLog,
                   resolverVars, assemblyVars>>

\* POST /api/sessions/, second half: serializer.save() sends the INSERT.
\* The unique constraint of session_id rejects it when the row appeared
\* since the check; the view catches nothing, so the IntegrityError is
\* answered 500 by the framework.
SessionPostSave ==
    /\ \E t \in Threads :
          LET sid == threads[t].local[1].session_id
              data == threads[t].local[1].input_data
          IN /\ threads[t].pc = "save"
             /\ IF SessionIdTaken(HiringSession, sid)
                THEN /\ UNCHANGED HiringSession
                     /\ threads' =
                           [threads EXCEPT
                               ![t].pc = "answered",
                               ![t].ret = Some([status |-> 500,
                                                message |-> DuplicateSession])]
                ELSE /\ Len(HiringSession) < MaxSessions
                     /\ HiringSession' =
                           Append(HiringSession,
                                  SessionRow(sid, "pending", NULL, data))
                     /\ threads' =
                           [threads EXCEPT
                               ![t].pc = "answered",
                               ![t].ret = Some([status |-> 201,
                                                message |-> ""])]
    /\ UNCHANGED <<ev, recorderVars, requestVars, templateVars, env_api_key,
                   modelVars, edits, configVars, ErrorLog, resolverVars,
                   assemblyVars>>

\* PUT/PATCH /api/sessions/{pk}/ with status in the body:
\* HiringSessionSerializer leaves the field writable, a value outside the
\* choices is answered 400.
SessionUpdate ==
    /\ \E pk \in 1..Len(HiringSession),
          st \in PatchedStatuses :
          /\ HiringSession' =
                IF st \in SessionStatuses
                THEN [HiringSession EXCEPT ![pk].status = st]
                ELSE HiringSession
          /\ resp' = [endpoint |-> "PATCH /api/sessions/{pk}/",
                      status |-> IF st \in SessionStatuses THEN 200 ELSE 400,
                      message |-> "", request |-> NoRequest]
    /\ UNCHANGED <<ev, threads, recorderVars, run, templateVars, env_api_key, modelVars,
                   edits, configVars, ErrorLog, resolverVars, assemblyVars>>

\* ------------------------------------------- sampling parameter writes
ParameterFields == {"temperature", "max_tokens", "top_p", "timeout"}

\* Values a request carries for a field, around the ends of its range
\* (temperature and top_p in tenths).
ParameterValues ==
    [temperature |-> {0 - 1, 0, 20, 21}, max_tokens |-> {0, 1, 8192, 8193},
     top_p |-> {0 - 1, 0, 10, 11}, timeout |-> {29, 30, 600, 601}]

\* MinValueValidator / MaxValueValidator of the model field, which a
\* ModelSerializer field takes over as min_value / max_value.
FieldValidators(field, value) ==
    CASE field = "temperature" -> 0 <= value /\ value <= 20
      [] field = "max_tokens" -> 1 <= value /\ value <= 8192
      [] field = "top_p" -> 0 <= value /\ value <= 10
      [] field = "timeout" -> 30 <= value /\ value <= 600

\* validate_temperature, validate_max_tokens and validate_top_p of
\* ModelConfigurationSerializer: TRUE when the value is returned.
ValidateField(field, value) ==
    CASE field = "temperature" -> 0 <= value /\ value <= 20
      [] field = "max_tokens" -> ~(value <= 0)
      [] field = "top_p" -> 0 <= value /\ value <= 10
      [] field = "timeout" -> TRUE

\* serializer.is_valid() for a body with this one sampling field.
SerializerAccepts(field, value) ==
    FieldValidators(field, value) /\ ValidateField(field, value)

\* POST /api/models/ with one sampling field in the body, the others left
\* to their defaults.
ModelCreateWith ==
    /\ edits < MaxEdits
    /\ model_next_id <= MaxModels
    /\ \E p \in Priorities, a \in BOOLEAN, field \in ParameterFields :
       \E value \in ParameterValues[field] :
          IF SerializerAccepts(field, value)
          THEN /\ ModelConfiguration' =
                     [i \in DOMAIN ModelConfiguration \cup {model_next_id} |->
                         IF i = model_next_id
                         THEN [priority |-> p, is_active |-> a]
                         ELSE ModelConfiguration[i]]
               /\ ModelParameters' =
                     [i \in DOMAIN ModelParameters \cup {model_next_id} |->
                         IF i = model_next_id
                         THEN [DefaultParameters EXCEPT ![field] = value]
                         ELSE ModelParameters[i]]
               /\ model_next_id' = model_next_id + 1
               /\ resp' = [endpoint |-> "POST /api/models/", status |-> 201,
                           message |-> "", request |-> NoRequest]
          ELSE /\ UNCHANGED modelVars
               /\ resp' = [endpoint |-> "POST /api/models/", status |-> 400,
                           message |-> field, request |-> NoRequest]
    /\ edits' = edits + 1
    /\ UNCHANGED <<ev, threads, recorderVars, run, templateVars, env_api_key, configVars,
                   HiringSession, ErrorLog, resolverVars, assemblyVars>>

\* PUT/PATCH /api/models/{pk}/ with one sampling field in the body.
ModelUpdateWith ==
    /\ edits < MaxEdits
    /\ \E pk \in DOMAIN ModelConfiguration, field \in ParameterFields :
       \E value \in ParameterValues[field] :
          IF SerializerAccepts(field, value)
          THEN /\ ModelParameters' =
                     [ModelParameters EXCEPT ![pk][field] = value]
               /\ resp' = [endpoint |-> "PATCH /api/models/{pk}/",
                           status |-> 200, message |-> "",
                           request |-> NoRequest]
          ELSE /\ UNCHANGED ModelParameters
               /\ resp' = [endpoint |-> "PATCH /api/models/{pk}/",
                           status |-> 400, message |-> field,
                           request |-> NoRequest]
    /\ edits' = edits + 1
    /\ UNCHANGED <<ev, threads, recorderVars, run, templateVars, env_api_key,
                   ModelConfiguration, model_next_id, configVars,
                   HiringSession, ErrorLog, resolverVars, assemblyVars>>

\* POST /api/update-model/ (views.update_model_config_api) with config_id
\* and one of the fields it copies: the row is looked up among the active
\* ones (404 otherwise), float() / int() of the value is assigned and
\* config.save() writes it; Model.save() runs no validator.
UpdateModelConfigApi ==
    /\ edits < MaxEdits
    /\ \E config_id \in ModelIds :
          IF config_id \notin ActiveModels(ModelConfiguration)
          THEN /\ UNCHANGED <<ModelConfiguration, ModelParameters>>
               /\ resp' = [endpoint |-> "POST /api/update-model/",
                           status |-> 404,
                           message |-> "Model configuration not found",
                           request |-> NoRequest]
          ELSE /\ \/ \E field \in ParameterFields :
                     \E value \in ParameterValues[field] :
                        /\ ModelParameters' =
                              [ModelParameters EXCEPT
                                  ![config_id][field] = value]
                        /\ UNCHANGED ModelConfiguration
                  \/ \E p \in Priorities :
                        /\ ModelConfiguration' =
                              [ModelConfiguration EXCEPT
                                  ![config_id].priority = p]
                        /\ UNCHANGED ModelParameters
               /\ resp' = [endpoint |-> "POST /api/update-model/",
                           status |-> 200, message |-> "",
                           request |-> NoRequest]
    /\ edits' = edits + 1
    /\ UNCHANGED <<ev, threads, recorderVars, run, templateVars, env_api_key,
                   model_next_id, configVars, HiringSession, ErrorLog,
                   resolverVars, assemblyVars>>

\* ------------------------------------------------------------- full test
\* get_manager() as one call: the exception ("" for none), _manager
\* afterwards, the ErrorLog rows written, whether the constructor and the
\* ladder ran, and the record of the call.
GetManagerOutcome(mgr, key, mc, n, order, bad) ==
    IF mgr # None
    THEN [raised |-> "", manager |-> mgr, logs |-> <<>>, constructed |-> 0,
          ladder |-> 0,
          gm |-> [outcome |-> "hit", raised |-> "", bad |-> {},
                  tried |-> <<>>, instance |-> mgr[1].instance,
                  llm |-> mgr[1].llm,
                  current_model_config |-> mgr[1].current_model_config]]
    ELSE IF ~key
         THEN [raised |-> ApiKeyMissing,
               manager |-> Memoized(ApiKeyMissing, n + 1, NoRun),
               logs |-> <<>>, constructed |-> 1, ladder |-> 0,
               gm |-> [outcome |-> "error", raised |-> ApiKeyMissing,
                       bad |-> {}, tried |-> <<>>, instance |-> n + 1,
                       llm |-> None, current_model_config |-> None]]
         ELSE LET r == InitializeLlm(mc, order, bad, n + 1)
              IN [raised |-> r.raised,
                  manager |-> Memoized(r.raised, n + 1, r),
                  logs |-> r.logs, constructed |-> 1, ladder |-> 1,
                  gm |-> [outcome |-> IF r.raised = "" THEN "created"
                                      ELSE "error",
                          raised |-> r.raised, bad |-> bad,
                          tried |-> r.tried, instance |-> n + 1,
                          llm |-> r.llm,
                          current_model_config |-> r.current_model_config]]

\* manager.get_system_config(key, default) for the two keys the tests read:
\* the exception of the first get_value() that raises, "" when none does.
\* A key without a row yields the default.
SystemConfigsRaised(sc) ==
    IF "FALLBACK_ENABLED" \in DOMAIN sc
          /\ GetValue(sc["FALLBACK_ENABLED"]).raised # ""
    THEN GetValue(sc["FALLBACK_ENABLED"]).raised
    ELSE IF "MAX_RETRY_ATTEMPTS" \in DOMAIN sc
         THEN GetValue(sc["MAX_RETRY_ATTEMPTS"]).raised
         ELSE ""

TestTypes == {"basic", "full"}
RequiredFields == {"candidate_name", "job_title"}
\* test_data of a request: not sent, or a dict with these keys.
TestDataChoices ==
    {None, Some({}), Some({"candidate_name"}), Some(RequiredFields)}
RequiredFieldsMessage == "For full tests, the following fields are required"

\* validate_test_data without the test for an empty value.
ValidateTestDataAlways(test_type, value) ==
    /\ test_type = "full"
    /\ RequiredFields \ value # {}

\* AgentTestRequestSerializer.validate_test_data(value), called only for a
\* request that carries test_data: TRUE when it raises ValidationError.
ValidateTestData(test_type, value) ==
    /\ test_type = "full"
    /\ value # {}
    /\ RequiredFields \ value # {}

RequestRejected(test_type, test_data) ==
    /\ test_data # None
    /\ ValidateTestData(test_type, test_data[1])

\* test_input of _run_full_test for validated_data.get('test_data', {}).
DefaultTestInput ==
    {"candidate_name", "job_title", "resume", "interview_notes"}
TestInput(test_data) ==
    IF test_data = None THEN DefaultTestInput
    ELSE IF test_data[1] = {} THEN DefaultTestInput ELSE test_data[1]

TestResults == {"job_matching_decision", "bias_audit_result", "confidence"}

\* load_agents() and create_tasks(job_matcher, bias_auditor) for a manager
\* whose llm is this one: the exception ("" for none) and what the two
\* calls returned.
Assemble(ac, tc, llm, torder) ==
    LET a == CreateAgentsResult(ac, llm)
    IN IF a.raised # ""
       THEN [raised |-> a.raised, ca |-> a, ct |-> NoTasks]
       ELSE LET t == CreateTasksResult(tc, ac, torder, a.ret[1][1],
                                       a.ret[1][2])
            IN [raised |-> t.raised, ca |-> a, ct |-> t]

\* A run that has started its session and is in its simulated processing.
Running(kind, pk, sid, data, request) ==
    Some([kind |-> kind, pk |-> pk, session_id |-> sid, input_data |-> data,
          request |-> request])

StartRec(s, sid, data) ==
    [op |-> "start", raised |-> s.raised, pk |-> s.pk, session_id |-> sid,
     input_data |-> data, error |-> ""]

\* POST /api/test/run/ up to the time.sleep of _run_full_test: the request
\* is validated; a "basic" test is answered at once; a "full" test is
\* answered 500 when a call raises and otherwise has started its session.
\* gm records the first get_manager() call of the request, the later ones
\* return the instance it memoized.
AgentTestRun ==
    /\ run = None
    /\ \E tt \in TestTypes, td \in TestDataChoices :
          IF RequestRejected(tt, td)
          THEN /\ resp' = [endpoint |-> "POST /api/test/run/",
                           status |-> 400,
                           message |-> RequiredFieldsMessage,
                           request |-> TestRequest(tt, td)]
               /\ UNCHANGED <<ev, threads, recorderVars, run, templateVars, env_api_key,
                              modelVars, edits, configVars, HiringSession,
                              ErrorLog, resolverVars, assemblyVars>>
          ELSE \E order \in LadderOrders(ModelConfiguration),
                  bad \in SUBSET ActiveModels(ModelConfiguration),
                  torder \in OrderByExecutionOrder(
                                 TaskConfiguration,
                                 ActiveTasks(TaskConfiguration)),
                  sid \in SessionIds :
               LET g == GetManagerOutcome(manager, env_api_key,
                                          ModelConfiguration, constructions,
                                          order, bad)
                   full == g.raised = "" /\ tt = "full"
                   b == Assemble(AgentConfiguration, TaskConfiguration,
                                 g.manager[1].llm, torder)
                   assembled == full /\ b.raised = ""
                   data == TestInput(td)
                   s == LogSessionStartResult(
                            HiringSession, ModelConfiguration,
                            g.manager[1].current_model_config[1].id,
                            sid, data)
                   started == assembled /\ s.raised = ""
                   raised ==
                       IF g.raised # "" THEN g.raised
                       ELSE IF tt = "basic"
                            THEN SystemConfigsRaised(SystemConfiguration)
                            ELSE IF b.raised # "" THEN b.raised
                                 ELSE s.raised
               IN /\ g.constructed = 1 => constructions < MaxConstructions
                  /\ Len(ErrorLog) + Len(g.logs) <= MaxErrorLogs
                  /\ started => Len(HiringSession) < MaxSessions
                  /\ manager' = g.manager
                  /\ constructions' = constructions + g.constructed
                  /\ ladder_runs' = ladder_runs + g.ladder
                  /\ gm' = g.gm
                  /\ ErrorLog' = ErrorLog \o g.logs
                  /\ ca' = IF full THEN b.ca ELSE ca
                  /\ ct' = IF full THEN b.ct ELSE ct
                  /\ HiringSession' = IF assembled THEN s.hs
                                      ELSE HiringSession
                  /\ held' = IF started
                             THEN HeldWith(held, s.pk, s.hs[s.pk]) ELSE held
                  /\ rec' = IF assembled THEN StartRec(s, sid, data) ELSE rec
                  /\ run' = IF started
                            THEN Running("api", s.pk, sid, data,
                                         TestRequest(tt, td))
                            ELSE None
                  /\ resp' =
                        IF started THEN resp
                        ELSE [endpoint |-> "POST /api/test/run/",
                              status |-> IF raised = "" THEN 200 ELSE 500,
                              message |-> raised,
                              request |-> TestRequest(tt, td)]
                  /\ UNCHANGED <<ev, threads, templateVars, env_api_key, modelVars,
                                 edits, configVars>>

\* The rest of _run_full_test: log_session_complete, then the response; an
\* exception goes to the except clause of agent_test_run.
AgentTestRunEnd ==
    /\ run # None
    /\ run[1].kind = "api"
    /\ \E t \in ExecutionTimes :
          LET pk == run[1].pk
              r == LogSessionCompleteResult(HiringSession,
                                            ModelConfiguration, pk,
                                            held[pk], TestResults, t)
          IN /\ HiringSession' = r.hs
             /\ held' = [held EXCEPT ![pk] = r.obj]
             /\ rec' = [op |-> "complete", raised |-> r.raised, pk |-> pk,
                        session_id |-> run[1].session_id,
                        input_data |-> {}, error |-> ""]
             /\ resp' = [endpoint |-> "POST /api/test/run/",
                         status |-> IF r.raised = "" THEN 200 ELSE 500,
                         message |-> r.raised,
                         request |-> run[1].request]
    /\ run' = None
    /\ UNCHANGED <<ev, threads, templateVars, env_api_key, modelVars, edits, configVars,
                   ErrorLog, resolverVars, assemblyVars>>

\* The except clause of Command.run_full_test for the exception e: it calls
\* log_session_start with the same session_id again and hands the session
\* that returns to log_session_error.
RunFullTestExcept(hs, el, mc, cfg, sid, data, e) ==
    LET s == LogSessionStartResult(hs, mc, cfg, sid, data)
    IN IF s.raised # ""
       THEN [raised |-> s.raised, hs |-> hs, el |-> el, pk |-> 0,
             rec |-> StartRec(s, sid, data)]
       ELSE LET r == LogSessionErrorResult(s.hs, el, mc, cfg, s.pk,
                                           s.hs[s.pk], e)
            IN [raised |-> r.raised, hs |-> r.hs, el |-> r.el, pk |-> s.pk,
                rec |-> [op |-> "error", raised |-> r.raised, pk |-> s.pk,
                         session_id |-> sid, input_data |-> {},
                         error |-> StrOfError(e)]]

\* The exception object for an exception string of the model.
ErrorOf(raised) == [class |-> "Exception", args |-> raised]

\* manage.py test_agent_config --full-test up to the time.sleep of
\* run_full_test: handle() makes its calls, then run_full_test starts the
\* session inside its try.
TestCommandRun ==
    /\ run = None
    /\ \E order \in LadderOrders(ModelConfiguration),
          bad \in SUBSET ActiveModels(ModelConfiguration),
          torder \in OrderByExecutionOrder(TaskConfiguration,
                                           ActiveTasks(TaskConfiguration)),
          sid \in SessionIds :
          LET g == GetManagerOutcome(manager, env_api_key,
                                     ModelConfiguration, constructions,
                                     order, bad)
              got == g.raised = ""
              b == Assemble(AgentConfiguration, TaskConfiguration,
                            g.manager[1].llm, torder)
              assembled ==
                  /\ got
                  /\ b.raised = ""
                  /\ SystemConfigsRaised(SystemConfiguration) = ""
              cfg == g.manager[1].current_model_config[1].id
              s == LogSessionStartResult(HiringSession, ModelConfiguration,
                                         cfg, sid, DefaultTestInput)
              started == assembled /\ s.raised = ""
              x == RunFullTestExcept(HiringSession, ErrorLog \o g.logs,
                                     ModelConfiguration, cfg, sid,
                                     DefaultTestInput, ErrorOf(s.raised))
          IN /\ g.constructed = 1 => constructions < MaxConstructions
             /\ Len(ErrorLog) + Len(g.logs) <= MaxErrorLogs
             /\ started => Len(HiringSession) < MaxSessions
             /\ manager' = g.manager
             /\ constructions' = constructions + g.constructed
             /\ ladder_runs' = ladder_runs + g.ladder
             /\ gm' = g.gm
             /\ ca' = IF got THEN b.ca ELSE ca
             /\ ct' = IF got THEN b.ct ELSE ct
             /\ IF assembled /\ ~started
                THEN /\ HiringSession' = x.hs
                     /\ ErrorLog' = x.el
                     /\ rec' = x.rec
                     /\ held' = held
                ELSE /\ HiringSession' = IF started THEN s.hs
                                         ELSE HiringSession
                     /\ ErrorLog' = ErrorLog \o g.logs
                     /\ rec' = IF started THEN StartRec(s, sid,
                                                       DefaultTestInput)
                               ELSE rec
                     /\ held' = IF started
                                THEN HeldWith(held, s.pk, s.hs[s.pk])
                                ELSE held
             /\ run' = IF started
                       THEN Running("command", s.pk, sid, DefaultTestInput,
                                    NoRequest)
                       ELSE None
             /\ UNCHANGED <<ev, threads, resp, templateVars, env_api_key, modelVars,
                            edits, configVars>>

\* The rest of run_full_test: log_session_complete, and the except clause
\* when it raises.
TestCommandRunEnd ==
    /\ run # None
    /\ run[1].kind = "command"
    /\ \E t \in ExecutionTimes :
          LET pk == run[1].pk
              r == LogSessionCompleteResult(HiringSession,
                                            ModelConfiguration, pk,
                                            held[pk], TestResults, t)
              x == RunFullTestExcept(
                       r.hs, ErrorLog, ModelConfiguration,
                       manager[1].current_model_config[1].id,
                       run[1].session_id, run[1].input_data,
                       ErrorOf(r.raised))
          IN /\ held' = [held EXCEPT ![pk] = r.obj]
             /\ IF r.raised = ""
                THEN /\ HiringSession' = r.hs
                     /\ ErrorLog' = ErrorLog
                     /\ rec' = [op |-> "complete", raised |-> "",
                                pk |-> pk,
                                session_id |-> run[1].session_id,
                                input_data |-> {}, error |-> ""]
                ELSE /\ HiringSession' = x.hs
                     /\ ErrorLog' = x.el
                     /\ rec' = x.rec
    /\ run' = None
    /\ UNCHANGED <<ev, threads, resp, templateVars, env_api_key, modelVars, edits,
                   configVars, resolverVars, assemblyVars>>

\* ------------------------------------------------------ error endpoints
\* The body of POST /api/errors/resolve-multiple/.
ResolveRequest(error_ids) == [error_ids |-> error_ids]

\* request.data.get('error_ids', []): the key missing, or a list of ids
\* (the set of its members; id__in does not see order or repetition).
ErrorIdChoices ==
    {None} \cup {Some(ids) : ids \in SUBSET (1..(MaxErrorLogs + 1))}

\* ErrorLog.objects.filter(id__in=error_ids).update(resolved=True).
UpdateResolved(el, ids) ==
    [rows |-> [i \in DOMAIN el |->
                  IF i \in ids THEN [el[i] EXCEPT !.resolved = TRUE]
                  ELSE el[i]],
     updated_count |-> Cardinality({i \in DOMAIN el : i \in ids})]

\* PATCH /api/errors/{pk}/resolve/ (error_log_resolve).
ErrorLogResolve ==
    /\ edits < MaxResolves
    /\ \E pk \in 1..(MaxErrorLogs + 1) :
          IF pk \notin DOMAIN ErrorLog
          THEN /\ UNCHANGED ErrorLog
               /\ resp' = [endpoint |-> "PATCH /api/errors/{pk}/resolve/",
                           status |-> 404, message |-> "",
                           request |-> NoRequest]
          ELSE /\ ErrorLog' = [ErrorLog EXCEPT ![pk].resolved = TRUE]
               /\ resp' = [endpoint |-> "PATCH /api/errors/{pk}/resolve/",
                           status |-> 200,
                           message |-> <<"Error ">> \o StrOfInt(pk)
                                          \o <<" marked as resolved">>,
                           request |-> NoRequest]
    /\ edits' = edits + 1
    /\ UNCHANGED <<ev, threads, recorderVars, run, templateVars, env_api_key, modelVars,
                   configVars, HiringSession, resolverVars, assemblyVars>>

\* error_logs_resolve_multiple without its test of error_ids.
ErrorLogsResolveMultipleUnguarded ==
    /\ edits < MaxResolves
    /\ \E error_ids \in ErrorIdChoices :
          LET ids == IF error_ids = None THEN {} ELSE error_ids[1]
              u == UpdateResolved(ErrorLog, ids)
          IN /\ ErrorLog' = u.rows
             /\ resp' = [endpoint |-> "POST /api/errors/resolve-multiple/",
                         status |-> 200,
                         message |-> StrOfInt(u.updated_count)
                                        \o <<" errors marked as resolved">>,
                         request |-> ResolveRequest(error_ids)]
    /\ edits' = edits + 1
    /\ UNCHANGED <<ev, threads, recorderVars, run, templateVars, env_api_key, modelVars,
                   configVars, HiringSession, resolverVars, assemblyVars>>

\* POST /api/errors/resolve-multiple/ (error_logs_resolve_multiple).
ErrorLogsResolveMultiple ==
    /\ edits < MaxResolves
    /\ \E error_ids \in ErrorIdChoices :
          LET ids == IF error_ids = None THEN {} ELSE error_ids[1]
              u == UpdateResolved(ErrorLog, ids)
          IN IF ids = {}
             THEN /\ UNCHANGED ErrorLog
                  /\ resp' = [endpoint |->
                                  "POST /api/errors/resolve-multiple/",
                              status |-> 400,
                              message |-> "No error IDs provided",
                              request |-> ResolveRequest(error_ids)]
             ELSE /\ ErrorLog' = u.rows
                  /\ resp' = [endpoint |->
                                  "POST /api/errors/resolve-multiple/",
                              status |-> 200,
                              message |->
                                  StrOfInt(u.updated_count)
                                     \o <<" errors marked as resolved">>,
                              request |-> ResolveRequest(error_ids)]
    /\ edits' = edits + 1
    /\ UNCHANGED <<ev, threads, recorderVars, run, templateVars, env_api_key, modelVars,
                   configVars, HiringSession, resolverVars, assemblyVars>>

\* --------------------------------------------------------- specification
\* The rows agent/management/commands/populate_agent_config.py seeds for
\* the two pipeline agents and their tasks, bound to model row m.
SeedAgents(m) ==
    [t \in {"job_matcher", "bias_auditor"} |->
        [is_active |-> TRUE, model_config |-> m]]

SeedTasks ==
    [t \in {"job_matching", "bias_audit"} |->
        [is_active |-> TRUE,
         agent_config |-> IF t = "job_matching" THEN "job_matcher"
                          ELSE "bias_auditor",
         execution_order |-> IF t = "job_matching" THEN 1 ELSE 2,
         description |-> <<"text", "{token_limit}">>,
         token_limit |-> IF t = "job_matching" THEN 1500 ELSE 1000]]

\* What a process starts with besides the configuration tables: no session
\* object in memory, no call made, no response sent.
FreshProcess ==
    /\ held = <<>>
    /\ rec = NoRec
    /\ resp = NoResp
    /\ run = None
    /\ call = NoPureCall
    /\ threads = NoThreads
    /\ ev = NoEvaluation

SeededTexts ==
    /\ PromptTemplate = SeedTemplates
    /\ SystemConfiguration = SeedSystemConfig

\* Process start: nothing memoized; the database holds any table of model
\* rows 1..n with n <= rows, the seeded agents and tasks when a model row
\* exists to bind them to, and possibly a session of an earlier process.
StartWith(rows) ==
    /\ env_api_key \in BOOLEAN
    /\ \E n \in 0..rows :
          /\ ModelConfiguration \in
                 [1..n -> [priority : Priorities, is_active : BOOLEAN]]
          /\ model_next_id = n + 1
          /\ ModelParameters = [i \in 1..n |-> DefaultParameters]
          /\ IF n = 0
             THEN AgentConfiguration = <<>> /\ TaskConfiguration = <<>>
             ELSE AgentConfiguration = SeedAgents(1)
                  /\ TaskConfiguration = SeedTasks
    /\ edits = 0
    /\ HiringSession \in {<<>>, <<SessionRow("s1", "completed", NULL, {"Resume"})>>}
    /\ ErrorLog = <<>>
    /\ manager = None
    /\ constructions = 0
    /\ ladder_runs = 0
    /\ gm = NoCall
    /\ ca = NoAgents
    /\ ct = NoTasks
    /\ FreshProcess
    /\ SeededTexts

\* The resolver on every table of up to MaxModels rows, the table left
\* alone while the process runs.
Init == StartWith(MaxModels)

Next ==
    \/ GetManagerHit
    \/ GetManagerNoKey
    \/ GetManagerResolve
    \/ LogSessionStart

Spec == Init /\ [][Next]_vars

\* The memo of get_manager() while the model endpoints rewrite the table.
MaxStartRows == 2       \* rows in the table at process start

InitMemo == StartWith(MaxStartRows)

NextMemo ==
    \/ GetManagerHit
    \/ GetManagerNoKey
    \/ GetManagerResolve
    \/ ModelCreate
    \/ ModelUpdate
    \/ ModelDelete

SpecMemo == InitMemo /\ [][NextMemo]_vars

\* The seeded rows plus a row of the third agent_type and, optionally, of
\* the third task_type assigned to it.
CustomAgent(m) == [is_active |-> TRUE, model_config |-> m]
CustomTask(o) ==
    [is_active |-> TRUE, agent_config |-> "custom", execution_order |-> o,
     description |-> <<"text", "{token_limit}">>, token_limit |-> 1500]

\* The seeded tasks with the job-matching description replaced by d.
SeedTasksWith(d) ==
    [SeedTasks EXCEPT !["job_matching"].description = d]

\* Process start for the assembler: model row 1 is active, row 2 has lower
\* priority; the agents point at either of them.
InitAssembler ==
    /\ env_api_key = TRUE
    /\ \E a \in BOOLEAN :
          ModelConfiguration =
              [i \in {1, 2} |->
                  IF i = 1 THEN [priority |-> 2, is_active |-> TRUE]
                  ELSE [priority |-> 1, is_active |-> a]]
    /\ model_next_id = 3
    /\ ModelParameters = [i \in {1, 2} |-> DefaultParameters]
    /\ \E m \in {1, 2} :
          AgentConfiguration =
              [t \in AgentTypes |->
                  IF t = "custom" THEN CustomAgent(m) ELSE SeedAgents(m)[t]]
    /\ \E d \in Descriptions :
          \/ TaskConfiguration = SeedTasksWith(d)
          \/ \E o \in 1..MaxOrder :
                TaskConfiguration =
                    [t \in DOMAIN SeedTasks \cup {"custom"} |->
                        IF t = "custom" THEN CustomTask(o)
                        ELSE SeedTasksWith(d)[t]]
    /\ edits = 0
    /\ HiringSession = <<>>
    /\ ErrorLog = <<>>
    /\ manager = None
    /\ constructions = 0
    /\ ladder_runs = 0
    /\ gm = NoCall
    /\ ca = NoAgents
    /\ ct = NoTasks
    /\ FreshProcess
    /\ SeededTexts

NextAssembler ==
    \/ GetManagerHit
    \/ GetManagerResolve
    \/ CreateAgents
    \/ CreateTasks
    \/ AgentSetActive
    \/ AgentSetModel
    \/ AgentDelete
    \/ TaskSetActive
    \/ TaskSetAgent
    \/ TaskSetOrder
    \/ TaskSetDescription

SpecAssembler == InitAssembler /\ [][NextAssembler]_vars

\* The database of the sessions: model row 1 is active, row 2 has lower
\* priority; the seeded agents, bound to a row of ms, and tasks; possibly a
\* session of an earlier process.
SessionTables(ms) ==
    /\ env_api_key = TRUE
    /\ \E a \in BOOLEAN :
          ModelConfiguration =
              [i \in {1, 2} |->
                  IF i = 1 THEN [priority |-> 2, is_active |-> TRUE]
                  ELSE [priority |-> 1, is_active |-> a]]
    /\ model_next_id = 3
    /\ ModelParameters = [i \in {1, 2} |-> DefaultParameters]
    /\ \E m \in ms : AgentConfiguration = SeedAgents(m)
    /\ TaskConfiguration = SeedTasks
    /\ edits = 0
    /\ HiringSession \in
           {<<>>, <<SessionRow("s1", "completed", NULL, {"Resume"})>>}
    /\ ca = NoAgents
    /\ ct = NoTasks
    /\ FreshProcess
    /\ SeededTexts

\* Sessions: the recorder of a process whose first get_manager() call has
\* memoized a working manager, while a ModelConfiguration row may be
\* deleted under it.
InitSession ==
    /\ SessionTables({1, 2})
    /\ \E order \in LadderOrders(ModelConfiguration),
          bad \in SUBSET ActiveModels(ModelConfiguration) :
          LET g == GetManagerOutcome(None, env_api_key, ModelConfiguration,
                                     0, order, bad)
          IN /\ g.raised = ""
             /\ manager = g.manager
             /\ constructions = 1
             /\ ladder_runs = 1
             /\ gm = g.gm
             /\ ErrorLog = g.logs

NextSession ==
    \/ LogSessionStart
    \/ LogSessionComplete
    \/ LogSessionError
    \/ ModelDelete

SpecSession == InitSession /\ [][NextSession]_vars

\* The session endpoints next to a recorder that starts sessions.
NextSessionApi ==
    \/ SessionCreate
    \/ SessionUpdate
    \/ LogSessionStart

SpecSessionApi == InitSession /\ [][NextSessionApi]_vars

\* The two full tests in a process that has not called get_manager() yet,
\* while a ModelConfiguration row may be deleted under them.
InitFullTest ==
    /\ SessionTables({1})
    /\ ErrorLog = <<>>
    /\ manager = None
    /\ constructions = 0
    /\ ladder_runs = 0
    /\ gm = NoCall

NextFullTest ==
    \/ AgentTestRun
    \/ AgentTestRunEnd
    \/ TestCommandRun
    \/ TestCommandRunEnd
    \/ ModelDelete

SpecFullTest == InitFullTest /\ [][NextFullTest]_vars

\* The sampling columns under the model endpoints and the legacy
\* update-model endpoint.
InitModelParameters ==
    /\ SessionTables({1})
    /\ ErrorLog = <<>>
    /\ manager = None
    /\ constructions = 0
    /\ ladder_runs = 0
    /\ gm = NoCall

NextModelParameters ==
    \/ ModelCreateWith
    \/ ModelUpdateWith
    \/ UpdateModelConfigApi

SpecModelParameters == InitModelParameters /\ [][NextModelParameters]_vars

\* The error endpoints over the rows the fallback ladder wrote.
InitErrors ==
    /\ SessionTables({1})
    /\ ErrorLog = <<>>
    /\ manager = None
    /\ constructions = 0
    /\ ladder_runs = 0
    /\ gm = NoCall

NextErrors ==
    \/ GetManagerResolve
    \/ ErrorLogResolve
    \/ ErrorLogsResolveMultiple

SpecErrors == InitErrors /\ [][NextErrors]_vars

\* Threads of one freshly started process calling get_manager().
InitThreads ==
    /\ SessionTables({1})
    /\ ErrorLog = <<>>
    /\ manager = None
    /\ constructions = 0
    /\ ladder_runs = 0
    /\ gm = NoCall

NextThreads ==
    \/ ThreadCall
    \/ ThreadTest
    \/ ThreadConstruct
    \/ ThreadAssign
    \/ ThreadReturn

SpecThreads == InitThreads /\ [][NextThreads]_vars

\* Threads of one process handling POST /api/sessions/ requests.
InitSessionPosts ==
    /\ SessionTables({1})
    /\ ErrorLog = <<>>
    /\ manager = None
    /\ constructions = 0
    /\ ladder_runs = 0
    /\ gm = NoCall

NextSessionPosts ==
    \/ SessionPostValidate
    \/ SessionPostSave

SpecSessionPosts == InitSessionPosts /\ [][NextSessionPosts]_vars

\* log_session_start of a memoized manager while the model endpoints
\* update, deactivate and delete rows.
NextSessionModels ==
    \/ LogSessionStart
    \/ ModelUpdate
    \/ ModelDelete

SpecSessionModels == InitSession /\ [][NextSessionModels]_vars

\* The configuration tables of a database nothing was seeded into.
EmptyConfiguration ==
    /\ env_api_key = TRUE
    /\ ModelConfiguration = <<>>
    /\ model_next_id = 1
    /\ ModelParameters = <<>>
    /\ AgentConfiguration = <<>>
    /\ TaskConfiguration = <<>>
    /\ edits = 0
    /\ HiringSession = <<>>
    /\ ErrorLog = <<>>
    /\ manager = None
    /\ constructions = 0
    /\ ladder_runs = 0
    /\ gm = NoCall
    /\ ca = NoAgents
    /\ ct = NoTasks

\* Templates: at most one of the two instruction templates exists, with any
\* content and either activity.
InitTemplates ==
    /\ EmptyConfiguration
    /\ FreshProcess
    /\ SystemConfiguration = SeedSystemConfig
    /\ \E names \in {{}, {"job_matching_instruction"}} :
          PromptTemplate \in
              [names -> [content : Contents, is_active : BOOLEAN]]

NextTemplates ==
    \/ RenderCall
    \/ GetPromptTemplateCall
    \/ TemplateSetActive

SpecTemplates == InitTemplates /\ [][NextTemplates]_vars

\* System configuration: the seeded rows, rewritten through the endpoint.
\* The formatting statement of create_tasks over description texts.
InitDescriptions ==
    /\ EmptyConfiguration
    /\ FreshProcess
    /\ SeededTexts

NextDescriptions == FormatCall

SpecDescriptions == InitDescriptions /\ [][NextDescriptions]_vars

\* Calls of evaluate_candidate.
InitEvaluations ==
    /\ EmptyConfiguration
    /\ FreshProcess
    /\ SeededTexts

NextEvaluations ==
    \/ EvaluateCandidate
    \/ EvaluateRound
    \/ EvaluateReturn

SpecEvaluations == InitEvaluations /\ [][NextEvaluations]_vars

InitSystemConfig ==
    /\ EmptyConfiguration
    /\ FreshProcess
    /\ SeededTexts

NextSystemConfig ==
    \/ SystemConfigUpdate
    \/ GetValueCall

SpecSystemConfig == InitSystemConfig /\ [][NextSystemConfig]_vars

\* ------------------------------------------------------ fallback resolver
\* A step in which get_manager() constructed a DatabaseAgentManager whose
\* constructor reached _initialize_llm.
LadderStep == ladder_runs' = ladder_runs + 1

\* The rows with is_active set, read off the table itself.
ActiveRows == {i \in DOMAIN ModelConfiguration :
                  ModelConfiguration[i].is_active}

\* The ErrorLog rows a step appends.
NewErrorLogs == SubSeq(ErrorLog', Len(ErrorLog) + 1, Len(ErrorLog'))

\* C1: with at least one active row, a resolution run selects an active
\* row whose LLM construction does not raise, every active row of strictly
\* higher priority raises, a run that has a constructible active row does
\* select one, and an inactive row is never selected.
C1_HighestPriorityWorkingRow ==
    [][(LadderStep /\ ActiveRows # {}) =>
          /\ (\E r \in ActiveRows : r \notin gm'.bad) => manager' # None
          /\ manager' # None =>
                LET c == manager'[1].current_model_config[1].id
                IN /\ c \in ActiveRows
                   /\ c \notin gm'.bad
                   /\ manager'[1].llm = Some([model |-> c,
                                              owner |-> manager'[1].instance])
                   /\ \A r \in ActiveRows :
                         ModelConfiguration[r].priority >
                             ModelConfiguration[c].priority => r \in gm'.bad
      ]_vars

\* A resolution just fell back past a failing row of higher priority while
\* an inactive row of still higher priority was left out.
C1_Witness ==
    /\ gm.outcome = "created"
    /\ edits = 0
    /\ Len(gm.tried) >= 2
    /\ \E r \in DOMAIN ModelConfiguration :
          /\ ~ModelConfiguration[r].is_active
          /\ ModelConfiguration[r].priority >
                ModelConfiguration[gm.current_model_config[1].id].priority
    /\ ModelConfiguration[gm.tried[1]].priority >
          ModelConfiguration[gm.current_model_config[1].id].priority

\* C2: a resolution run that ends on row N+1 after N failures appends
\* exactly N ErrorLog rows, all of type model_error, the n-th linked to the
\* n-th row tried; the rows logged are active rows that raised, none is the
\* selected row or a row of lower priority, and current_model_config is
\* row N+1.
C2_OneErrorLogPerFailedRow ==
    [][(LadderStep /\ manager' # None) =>
          LET c == manager'[1].current_model_config[1].id
              N == Len(gm'.tried) - 1
          IN /\ gm'.tried[N + 1] = c
             /\ Len(ErrorLog') = Len(ErrorLog) + N
             /\ SubSeq(ErrorLog', 1, Len(ErrorLog)) = ErrorLog
             /\ \A n \in 1..N :
                   /\ NewErrorLogs[n].error_type = "model_error"
                   /\ NewErrorLogs[n].model_config = gm'.tried[n]
                   /\ NewErrorLogs[n].model_config \in ActiveRows \cap gm'.bad
                   /\ NewErrorLogs[n].model_config # c
                   /\ ModelConfiguration[NewErrorLogs[n].model_config].priority
                         >= ModelConfiguration[c].priority
                   /\ \A m \in 1..N :
                         m # n => NewErrorLogs[m].model_config
                                     # NewErrorLogs[n].model_config
      ]_vars

\* A run in which two rows failed before the third was selected.
C2_Witness ==
    /\ gm.outcome = "created"
    /\ Len(gm.tried) = 3
    /\ Len(ErrorLog) >= 2
    /\ ErrorLog[Len(ErrorLog)].model_config = gm.tried[2]
    /\ manager[1].current_model_config[1].id = gm.tried[3]

\* C3: a get_manager() call made with no active ModelConfiguration row
\* raises the no-active-configurations error, leaves _manager unset and
\* changes no HiringSession (nor ErrorLog) row.
C3_NoActiveRowsFails ==
    [][(LadderStep /\ ActiveRows = {}) =>
          /\ gm'.raised = NoActiveModels
          /\ gm'.tried = <<>>
          /\ manager' = None
          /\ HiringSession' = HiringSession
          /\ ErrorLog' = ErrorLog
      ]_vars

\* Resolution failed for want of an active row while the table is not empty
\* and a session of an earlier process exists.
C3_Witness ==
    /\ gm.raised = NoActiveModels
    /\ manager = None
    /\ edits = 0
    /\ DOMAIN ModelConfiguration # {}
    /\ HiringSession # <<>>

\* C4: when active rows exist and LLM construction raises for every one of
\* them, the run raises the no-working-model error (not the
\* no-active-configurations one), has tried each active row exactly once
\* and logged each, and llm and current_model_config are still None.
C4_AllRowsFail ==
    [][(LadderStep /\ ActiveRows # {} /\ ActiveRows \subseteq gm'.bad) =>
          /\ gm'.raised = NoWorkingModel
          /\ gm'.raised # NoActiveModels
          /\ Len(gm'.tried) = Cardinality(ActiveRows)
          /\ {gm'.tried[n] : n \in 1..Len(gm'.tried)} = ActiveRows
          /\ Len(NewErrorLogs) = Cardinality(ActiveRows)
          /\ gm'.llm = None
          /\ gm'.current_model_config = None
          /\ manager' = None
      ]_vars

\* Every one of at least two active rows was tried and failed.
C4_Witness ==
    /\ gm.raised = NoWorkingModel
    /\ Len(gm.tried) >= 2
    /\ edits = 0
    /\ {gm.tried[n] : n \in 1..Len(gm.tried)} = ActiveRows
    /\ manager = None

\* ------------------------------------------------------- get_manager memo
\* The last get_manager() call ran the ladder and it failed.
ResolutionFailed ==
    gm.outcome = "error" /\ gm.raised \in {NoActiveModels, NoWorkingModel}

\* C5 as claimed: once a resolution has failed, nothing later in the
\* process runs the fallback ladder again.
C5_NoRerunAfterFailure ==
    [][ResolutionFailed => ladder_runs' = ladder_runs]_vars

\* C5 as amended: a failed resolution leaves _manager unset, and the next
\* get_manager() call runs the ladder again over the rows as they are at
\* that call, selecting a row whenever an active row then constructs.
C5_FailureIsNotMemoized ==
    [][ResolutionFailed =>
          /\ manager = None
          /\ constructions' = constructions + 1 =>
                /\ LadderStep
                /\ {gm'.tried[n] : n \in 1..Len(gm'.tried)}
                       \subseteq ActiveRows
                /\ (\E r \in ActiveRows : r \notin gm'.bad) =>
                       /\ gm'.outcome = "created"
                       /\ manager' # None
                       /\ manager'[1].current_model_config[1].id
                              \in ActiveRows
      ]_vars

\* A second ladder run succeeded although the first had failed for want of
\* an active row: a row was activated or created in between.
C5_Witness ==
    /\ ladder_runs = 2
    /\ gm.outcome = "created"
    /\ ErrorLog = <<>>
    /\ edits >= 1
    /\ manager # None

\* C6: once _manager is set no step changes it: get_manager() returns that
\* instance with the current_model_config it chose, and runs neither the
\* constructor nor the ladder, whatever happens to the table.
C6_MemoIsStable ==
    [][manager # None =>
          /\ manager' = manager
          /\ constructions' = constructions
          /\ ladder_runs' = ladder_runs
          /\ gm' # gm =>
                /\ gm'.outcome = "hit"
                /\ gm'.instance = manager[1].instance
                /\ gm'.llm = manager[1].llm
                /\ gm'.current_model_config = manager[1].current_model_config
      ]_vars

\* get_manager() returned the memoized instance after the row it had
\* chosen was deactivated or deleted.
C6_Witness ==
    /\ gm.outcome = "hit"
    /\ manager # None
    /\ edits >= 1
    /\ manager[1].current_model_config[1].id \notin ActiveRows

\* --------------------------------------------------------------- assembler
\* The agent rows with is_active set, read off the table itself.
ActiveAgentRows == {t \in DOMAIN AgentConfiguration :
                       AgentConfiguration[t].is_active}

\* The task rows with is_active set, and those of them whose agent is of a
\* type other than the two create_tasks is given.
ActiveTaskRows == {t \in DOMAIN TaskConfiguration :
                      TaskConfiguration[t].is_active}
ForeignTaskRows ==
    {t \in ActiveTaskRows :
        TaskConfiguration[t].agent_config
            \notin {"job_matcher", "bias_auditor"}}

\* A step in which create_tasks returned or raised.
TasksStep == ct' # ct /\ (ct'.raised # "" \/ ct'.ret # None)

C8_BothAgentsOrError ==
    [][ca' # ca =>
          /\ ca'.ret # None
                <=> {"job_matcher", "bias_auditor"} \subseteq ActiveAgentRows
          /\ ca'.ret # None =>
                /\ ca'.raised = ""
                /\ ca'.ret[1][1].agent_type = "job_matcher"
                /\ ca'.ret[1][2].agent_type = "bias_auditor"
          /\ ca'.ret = None =>
                ca'.raised \in {TooFewAgents, RequiredAgentsMissing}
      ]_vars

\* create_agents failed although two rows were active, one of the required
\* types being inactive.
C8_Witness ==
    /\ ca.raised = RequiredAgentsMissing
    /\ ca.ret = None
    /\ Cardinality(DOMAIN ca.agents) = 2
    /\ Cardinality(ActiveAgentRows) = 2

C10_TwoTasksOrMissingTaskError ==
    [][TasksStep =>
          /\ ct'.ret # None =>
                Cardinality(ActiveTaskRows \ ForeignTaskRows) >= 2
          /\ Cardinality(ActiveTaskRows \ ForeignTaskRows) < 2 =>
                /\ ct'.ret = None
                /\ ct'.raised \in {TooFewTasks, RequiredTasksMissing}
      ]_vars

\* --------------------------------------------------------- task ordering
\* C11: whenever create_tasks returns, the first task of the pair is the
\* job-matching task bound to the job_matcher agent and the second the
\* bias-audit task bound to the bias_auditor agent, in ascending
\* execution_order.
C11_JobMatchingThenBiasAudit ==
    [][(TasksStep /\ ct'.ret # None) =>
          /\ ct'.ret[1][1].config = "job_matching"
          /\ ct'.ret[1][1].agent.agent_type = "job_matcher"
          /\ ct'.ret[1][2].config = "bias_audit"
          /\ ct'.ret[1][2].agent.agent_type = "bias_auditor"
          /\ TaskConfiguration[ct'.ret[1][1].config].execution_order
                <= TaskConfiguration[ct'.ret[1][2].config].execution_order
      ]_vars

\* ------------------------------------------------------- session recorder
TerminalStatuses == {"completed", "failed"}

\* C12: a HiringSession whose status is completed or failed keeps that
\* status in every step, whichever recorder call or session endpoint runs.
C12_TerminalStatusIsKept ==
    [][\A pk \in 1..Len(HiringSession) :
          (HiringSession[pk].status \in TerminalStatuses
              /\ pk <= Len(HiringSession'))
          => HiringSession'[pk].status = HiringSession[pk].status
      ]_vars

\* The task_error ErrorLog rows of table el linked to session pk.
TaskErrorsOf(el, pk) ==
    {n \in 1..Len(el) : el[n].error_type = "task_error" /\ el[n].session = pk}

\* A step in which a full test that had started its session ends with an
\* exception.
RunFails == run # None /\ run' = None /\ rec'.raised # ""

\* C13: whenever a full-test run fails after it started its HiringSession,
\* that session ends with status failed and with exactly one linked
\* task_error ErrorLog; it is never left in processing without an ErrorLog.
C13_FailureIsRecorded ==
    [][RunFails =>
          /\ HiringSession'[run[1].pk].status = "failed"
          /\ Cardinality(TaskErrorsOf(ErrorLog', run[1].pk)) = 1
      ]_vars

\* A step that is a log_session_start call.
StartStep == rec'.op = "start" /\ rec' # rec

\* C14: log_session_start(session_id, input_data) appends exactly one
\* HiringSession with status processing, that input_data and
\* model_config_used = the manager's current_model_config; for a session_id
\* some session already has it raises the duplicate-session error and leaves
\* the table as it was.
C14_StartCreatesOneSession ==
    [][StartStep =>
          IF SessionIdTaken(HiringSession, rec'.session_id)
          THEN /\ rec'.raised = DuplicateSession
               /\ HiringSession' = HiringSession
          ELSE /\ rec'.raised = ""
               /\ Len(HiringSession') = Len(HiringSession) + 1
               /\ SubSeq(HiringSession', 1, Len(HiringSession)) = HiringSession
               /\ LET new == HiringSession'[Len(HiringSession')]
                  IN /\ new.session_id = rec'.session_id
                     /\ new.status = "processing"
                     /\ new.input_data = rec'.input_data
                     /\ new.model_config_used =
                            manager[1].current_model_config[1].id
      ]_vars

\* A step that is a log_session_complete (log_session_error) call on a
\* session whose object in memory is in status processing.
CompleteStep ==
    /\ rec'.op = "complete"
    /\ rec' # rec \/ held' # held
    /\ held[rec'.pk].status = "processing"
ErrorStep ==
    /\ rec'.op = "error"
    /\ rec' # rec \/ held' # held
    /\ held[rec'.pk].status = "processing"

\* C15: after log_session_complete on a started session the session's row
\* is completed, with the given results and a non-null execution_time, and
\* no ErrorLog was added; after one log_session_error on a started session
\* its row is failed and exactly one ErrorLog is linked to it, of type
\* task_error, with the error's string as message and the session_id in its
\* details.
C15_CompleteAndErrorAreRecorded ==
    [][/\ CompleteStep =>
             /\ rec'.raised = ""
             /\ HiringSession'[rec'.pk].status = "completed"
             /\ HiringSession'[rec'.pk].results = held'[rec'.pk].results
             /\ HiringSession'[rec'.pk].results \in Results
             /\ HiringSession'[rec'.pk].execution_time # NULL
             /\ ErrorLog' = ErrorLog
       /\ ErrorStep =>
             /\ rec'.raised = ""
             /\ HiringSession'[rec'.pk].status = "failed"
             /\ Len(ErrorLog') = Len(ErrorLog) + 1
             /\ \A n \in 1..Len(ErrorLog') :
                   ErrorLog'[n].session = rec'.pk =>
                      /\ n = Len(ErrorLog')
                      /\ ErrorLog'[n].error_type = "task_error"
                      /\ ErrorLog'[n].message = rec'.error
                      /\ ErrorLog'[n].details.session_id = rec'.session_id
      ]_vars

\* ------------------------------------------------------ session endpoints
\* A step that is a POST /api/sessions/.
PostStep ==
    /\ resp'.endpoint = "POST /api/sessions/"
    /\ resp' # resp \/ HiringSession' # HiringSession

\* The step appended one session whose session_id no session had.
CreatedFresh ==
    /\ Len(HiringSession') = Len(HiringSession) + 1
    /\ SubSeq(HiringSession', 1, Len(HiringSession)) = HiringSession
    /\ ~SessionIdTaken(HiringSession,
                       HiringSession'[Len(HiringSession')].session_id)

\* C16: a POST /api/sessions/ with the session_id of an existing
\* HiringSession is answered 400 with the message "Session ID already
\* exists" and leaves the HiringSession table as it was: a POST either
\* creates a session with a new session_id or is answered so.
C16_DuplicatePostIs400WithMessage ==
    [][PostStep =>
          \/ CreatedFresh
          \/ /\ resp'.status = 400
             /\ resp'.message = SessionIdExistsMessage
             /\ HiringSession' = HiringSession
      ]_vars

\* --------------------------------------------------------- PromptTemplate
\* The pairs of kwargs whose placeholder the text s starts with.
StartsWith(s, kwargs) ==
    {i \in 1..Len(kwargs) :
        LET p == Placeholder(kwargs[i][1])
        IN Len(p) <= Len(s) /\ SubSeq(s, 1, Len(p)) = p}

\* The content with every occurrence of a supplied {name} replaced by the
\* string form of its value, everything else copied.
RECURSIVE Substituted(_, _)
Substituted(s, kwargs) ==
    IF s = <<>> THEN <<>>
    ELSE IF StartsWith(s, kwargs) = {}
         THEN <<Head(s)>> \o Substituted(Tail(s), kwargs)
         ELSE LET i == CHOOSE i \in StartsWith(s, kwargs) : TRUE
                  p == Placeholder(kwargs[i][1])
              IN StrOfValue(kwargs[i][2])
                    \o Substituted(SubSeq(s, Len(p) + 1, Len(s)), kwargs)

\* C17: render never fails and returns the content with each occurrence of
\* {name} replaced by the string form of the value supplied for name,
\* every other {name} left as it is and unused variables ignored.
C17_RenderSubstitutesEveryOccurrence ==
    call.fn = "render" =>
       /\ call.raised = ""
       /\ call.result = Substituted(call.content, call.kwargs)

\* A step that is a get_prompt_template call, and whether the template it
\* names exists and is active.
TemplateStep == call' # call /\ call'.fn = "get_prompt_template"
ActiveTemplate ==
    /\ call'.name \in DOMAIN PromptTemplate
    /\ PromptTemplate[call'.name].is_active

\* C18 as stated: get_prompt_template raises nothing, returns "" exactly
\* when the template is missing or inactive, and the rendering of an active
\* template.
C18_EmptyExactlyWhenMissing ==
    [][TemplateStep =>
          /\ call'.raised = ""
          /\ call'.result = <<>> <=> ~ActiveTemplate
          /\ ActiveTemplate =>
                call'.result = Render(PromptTemplate[call'.name].content,
                                      call'.kwargs)
      ]_vars

\* C18: get_prompt_template raises nothing; it returns "" whenever the
\* template is missing or inactive, and for an active template what render
\* returns for its content, which can be "" as well.
C18_EmptyWhenMissingElseRendering ==
    [][TemplateStep =>
          /\ call'.raised = ""
          /\ ~ActiveTemplate => call'.result = <<>>
          /\ ActiveTemplate =>
                call'.result = Render(PromptTemplate[call'.name].content,
                                      call'.kwargs)
      ]_vars

\* An active template with a non-empty content was rendered to "".
C18_Witness ==
    /\ call.fn = "get_prompt_template"
    /\ call.name \in DOMAIN PromptTemplate
    /\ PromptTemplate[call.name].is_active
    /\ PromptTemplate[call.name].content = call.content
    /\ call.content # <<>>
    /\ call.kwargs # <<>>
    /\ call.result = <<>>

\* ---------------------------------------------------- SystemConfiguration
\* The literals SystemConfigurationSerializer accepts for a boolean.
BooleanLiterals == {"true", "false", "1", "0", "yes", "no", "on", "off"}

\* A step that is a get_value() call on a row of data_type boolean.
BooleanStep ==
    /\ call' # call
    /\ call'.fn = "get_value"
    /\ SystemConfiguration[call'.name].data_type = "boolean"

\* C19: get_value() on a boolean row returns true for "true", false for
\* "0", and raises a coercion error for a value that is no boolean literal.
C19_BooleanCoercion ==
    [][BooleanStep =>
          LET value == SystemConfiguration[call'.name].value
          IN /\ value = "true" =>
                   call'.raised = "" /\ call'.result = Typed("bool", TRUE).value
             /\ value = "0" =>
                   call'.raised = "" /\ call'.result = Typed("bool", FALSE).value
             /\ Lower(value) \notin BooleanLiterals =>
                   call'.raised = CoercionError
      ]_vars

\* --------------------------------------------------------------- full test
\* A step that handles a POST /api/test/run/ request up to its response or
\* its time.sleep, the request it handles, and whether it started a session.
TestRunStep ==
    /\ run = None
    /\ \/ run' # None /\ run'[1].kind = "api"
       \/ run' = None /\ resp' # resp
                      /\ resp'.endpoint = "POST /api/test/run/"
TestRunRequest == IF run' # None THEN run'[1].request ELSE resp'.request
TestRunRejected ==
    /\ run' = None
    /\ resp'.status = 400
    /\ HiringSession' = HiringSession

\* test_data is not sent or is the empty dict.
NoTestData(request) ==
    request.test_data = None \/ request.test_data[1] = {}
LacksRequired(request) ==
    NoTestData(request) \/ RequiredFields \ request.test_data[1] # {}

\* C20 as stated: a "full" request whose test_data lacks candidate_name or
\* job_title, test_data omitted or empty included, is answered 400 and
\* creates no HiringSession.
C20_FullWithoutFieldsIsRejected ==
    [][(TestRunStep /\ TestRunRequest.test_type = "full"
           /\ LacksRequired(TestRunRequest))
       => TestRunRejected
      ]_vars

\* C20: a "full" request with a non-empty test_data that lacks
\* candidate_name or job_title is answered 400 and creates no
\* HiringSession; one whose test_data is omitted or empty is not rejected:
\* it is run on the sample input, which starts a HiringSession with that
\* input unless a call of the run raises (500).
C20_NonEmptyWithoutFieldsIsRejected ==
    [][(TestRunStep /\ TestRunRequest.test_type = "full") =>
          /\ (LacksRequired(TestRunRequest) /\ ~NoTestData(TestRunRequest))
                => TestRunRejected /\ resp'.message = RequiredFieldsMessage
          /\ NoTestData(TestRunRequest) =>
                IF run' = None
                THEN resp'.status = 500 /\ HiringSession' = HiringSession
                ELSE /\ Len(HiringSession') = Len(HiringSession) + 1
                     /\ HiringSession'[run'[1].pk].input_data
                           = DefaultTestInput
                     /\ HiringSession'[run'[1].pk].status = "processing"
      ]_vars

\* A request without test_data has run and left its session, and a request
\* with candidate_name only has been answered 400.
C20_Witness ==
    /\ resp.endpoint = "POST /api/test/run/"
    /\ resp.status = 400
    /\ resp.request = TestRequest("full", Some({"candidate_name"}))
    /\ \E pk \in 1..Len(HiringSession) :
          HiringSession[pk].input_data = DefaultTestInput

\* ------------------------------------------------------------ API key
\* A step that is a get_manager() call made while no manager is memoized
\* and the API-key variable is absent.
NoKeyStep ==
    /\ manager = None
    /\ ~env_api_key
    /\ constructions' # constructions

\* C21: constructing the manager without the API-key variable raises the
\* key error before any row is read or written: no ErrorLog is created, the
\* ladder is not started, no table changes and nothing is memoized, so the
\* next get_manager() call constructs, and tests the variable, again.
C21_NoKeyFailsBeforeDatabase ==
    [][NoKeyStep =>
          /\ gm'.raised = ApiKeyMissing
          /\ gm'.tried = <<>>
          /\ ErrorLog' = ErrorLog
          /\ ladder_runs' = ladder_runs
          /\ manager' = None
          /\ UNCHANGED <<modelVars, configVars, HiringSession>>
      ]_vars

\* The second call of a process without the variable has failed like the
\* first, although the table holds an active row.
C21_Witness ==
    /\ ~env_api_key
    /\ constructions = 2
    /\ gm.raised = ApiKeyMissing
    /\ ActiveModels(ModelConfiguration) # {}
    /\ manager = None
    /\ ladder_runs = 0
    /\ ErrorLog = <<>>

\* ------------------------------------------------- sampling parameters
\* C22: whatever writes were made through the model endpoints and the
\* update-model endpoint, every stored ModelConfiguration has max_tokens in
\* [1, 8192], timeout in [30, 600], temperature in [0, 2] and top_p in
\* [0, 1].
C22_StoredParametersInRange ==
    \A pk \in DOMAIN ModelParameters :
       /\ 1 <= ModelParameters[pk].max_tokens
       /\ ModelParameters[pk].max_tokens <= 8192
       /\ 30 <= ModelParameters[pk].timeout
       /\ ModelParameters[pk].timeout <= 600
       /\ 0 <= ModelParameters[pk].temperature
       /\ ModelParameters[pk].temperature <= 20
       /\ 0 <= ModelParameters[pk].top_p
       /\ ModelParameters[pk].top_p <= 10

\* ------------------------------------------------------ error endpoints
ResolveMultipleStep ==
    /\ edits' # edits
    /\ resp'.endpoint = "POST /api/errors/resolve-multiple/"

\* The ids the request of the step carried (none when the key is missing).
ResolveIds ==
    IF resp'.request.error_ids = None THEN {}
    ELSE resp'.request.error_ids[1]

\* C23: POST /api/errors/resolve-multiple/ with a non-empty error_ids list
\* sets resolved on exactly the existing ErrorLog rows whose id is in the
\* list, changes no other row, field or table, ignores ids of no row and
\* reports the number of rows matched; with an empty or missing list it
\* answers 400 and changes nothing.
C23_ResolveMultipleExact ==
    [][ResolveMultipleStep =>
          /\ UNCHANGED <<modelVars, configVars, HiringSession, PromptTemplate,
                         SystemConfiguration, manager>>
          /\ IF ResolveIds = {}
             THEN /\ resp'.status = 400
                  /\ ErrorLog' = ErrorLog
             ELSE /\ resp'.status = 200
                  /\ DOMAIN ErrorLog' = DOMAIN ErrorLog
                  /\ \A i \in DOMAIN ErrorLog :
                        IF i \in ResolveIds
                        THEN ErrorLog'[i] =
                                 [ErrorLog[i] EXCEPT !.resolved = TRUE]
                        ELSE ErrorLog'[i] = ErrorLog[i]
                  /\ resp'.message =
                        StrOfInt(Cardinality(ResolveIds \cap DOMAIN ErrorLog))
                           \o <<" errors marked as resolved">>]_vars

\* Two rows exist, one of them resolved before; the request named row 2,
\* the resolved row 1 and the id 4 of no row: two rows were matched.
C23_Witness ==
    /\ resp.endpoint = "POST /api/errors/resolve-multiple/"
    /\ resp.status = 200
    /\ resp.request.error_ids = Some({1, 2, 4})
    /\ Len(ErrorLog) = 3
    /\ ErrorLog[1].resolved /\ ErrorLog[2].resolved /\ ~ErrorLog[3].resolved
    /\ resp.message = <<"2", " errors marked as resolved">>

\* ---------------------------------------------------- get_manager, threaded
\* No constructor call of a thread has raised (a failed construction is
\* never memoized, so the next caller constructs again even without a
\* second thread).
NoThreadRaised == \A t \in Threads : threads[t].pc # "raised"

LadderRunsOnce == ladder_runs <= 1
ConstructsOnce == constructions <= 1
SameInstance ==
    \A t, u \in Threads :
       threads[t].pc = "returned" /\ threads[u].pc = "returned"
          => threads[t].ret = threads[u].ret
OneModelErrorPerRow ==
    \A c \in DOMAIN ModelConfiguration :
       Cardinality({i \in DOMAIN ErrorLog :
                       /\ ErrorLog[i].error_type = "model_error"
                       /\ ErrorLog[i].model_config = c}) <= 1

\* C24: when threads of one process call get_manager() concurrently before
\* any manager exists, the fallback ladder runs at most once, at most one
\* DatabaseAgentManager is constructed, every caller receives the same
\* instance, and a failing ModelConfiguration row gets at most one
\* model_error ErrorLog.
C24_ConcurrentFirstUseOnce ==
    NoThreadRaised =>
       /\ LadderRunsOnce
       /\ ConstructsOnce
       /\ SameInstance
       /\ OneModelErrorPerRow

\* ------------------------------------------------- concurrent session POSTs
\* Two requests that carried the same session_id have both been answered,
\* and the id was new: one of them at least passed the uniqueness check.
SameNewIdAnswered(t, u) ==
    /\ t # u
    /\ threads[t].pc = "answered" /\ threads[u].pc = "answered"
    /\ threads[t].local[1].session_id = threads[u].local[1].session_id
    /\ threads[t].ret[1].status # 400 \/ threads[u].ret[1].status # 400

\* C25: two POST /api/sessions/ requests with the same new session_id that
\* are handled concurrently leave exactly one HiringSession with that id;
\* one is answered 201 and the other 400 with "Session ID already exists",
\* never an unhandled error, whatever the interleaving.
C25_ConcurrentPostsOne201One400 ==
    \A t, u \in Threads :
       SameNewIdAnswered(t, u) =>
          /\ Cardinality({n \in DOMAIN HiringSession :
                 HiringSession[n].session_id =
                    threads[t].local[1].session_id}) = 1
          /\ {threads[t].ret[1].status, threads[u].ret[1].status} = {201, 400}
          /\ \A v \in {t, u} :
                threads[v].ret[1].status = 400
                   => threads[v].ret[1].message = SessionIdExistsMessage

\* --------------------------------------------- model row of a new session
\* log_session_start has created a session: the row appended by the step.
SessionCreatedStep ==
    /\ StartStep
    /\ rec'.raised = ""
    /\ Len(HiringSession') = Len(HiringSession) + 1

\* C26: every HiringSession created by log_session_start references, as
\* model_config_used, a ModelConfiguration row that exists and is active
\* when the session is created, whatever updates, deactivations and
\* deletions followed the manager's resolution.
C26_NewSessionModelIsActive ==
    [][SessionCreatedStep =>
          HiringSession'[Len(HiringSession')].model_config_used
             \in ActiveModels(ModelConfiguration)]_vars

\* ------------------------------------------- stored SystemConfiguration
\* C27: after any sequence of requests on the system-config endpoints that
\* SystemConfigurationSerializer accepted, get_value() succeeds on every
\* stored SystemConfiguration row.
C27_StoredValuesCoerce ==
    \A key \in DOMAIN SystemConfiguration :
       GetValue(SystemConfiguration[key]).raised = ""

\* ------------------------------------------------- render, argument order
\* The argument lists that supply the same variables in another order.
Reordered(kwargs) ==
    {kw \in KwargLists :
        /\ Len(kw) = Len(kwargs)
        /\ {kw[i] : i \in 1..Len(kw)} = {kwargs[i] : i \in 1..Len(kwargs)}}

\* The text sub occurs in the text s.
Occurs(sub, s) ==
    \E k \in 0..(Len(s) - Len(sub)) : SubSeq(s, k + 1, k + Len(sub)) = sub

\* C28: the result of render does not depend on the order in which the
\* variables are supplied, and a substituted value is never rescanned: a
\* supplied value that contains {other} appears verbatim in the result even
\* when other is supplied too.
C28_RenderOrderFreeNoRescan ==
    call.fn = "render" =>
       /\ \A kw \in Reordered(call.kwargs) :
             Render(call.content, kw) = call.result
       /\ \A i, j \in 1..Len(call.kwargs) :
             /\ i # j
             /\ Occurs(Placeholder(call.kwargs[i][1]), call.content)
             /\ Occurs(Placeholder(call.kwargs[j][1]),
                       StrOfValue(call.kwargs[i][2]))
             => Occurs(StrOfValue(call.kwargs[i][2]), call.result)

\* ------------------------------------------------ description formatting
\* C29: for every description text, what create_tasks renders with the
\* row's token_limit is what PromptTemplate.render(token_limit=...) returns
\* for the same text; a brace token other than {token_limit} stays verbatim
\* and does not make the formatting fail.
C29_FormatIsRender ==
    call.fn = "format" =>
       /\ call.raised = ""
       /\ call.result = Render(call.content, call.kwargs)

\* ----------------------------------------------------- evaluate_candidate
\* The last round of the history was biased and asked for re-evaluation.
LastRoundStillBiased(history) ==
    /\ history # <<>>
    /\ history[Len(history)].bias_evaluation.bias_classification # "unbiased"
    /\ history[Len(history)].bias_evaluation.requires_reevaluation

\* No round before the last one of the history ended the loop.
StoppedAtFirst(history) ==
    \A n \in 1..(Len(history) - 1) :
       /\ history[n].bias_evaluation.bias_classification # "unbiased"
       /\ history[n].bias_evaluation.requires_reevaluation

\* C30: evaluate_candidate runs at most max_iterations rounds and stops at
\* the first round whose audit is unbiased or asks for no re-evaluation;
\* for every max_iterations it returns a non-null result whose
\* iterations_required is the length of evaluation_history and at most
\* max_iterations, with the warning present only when the last round was
\* still biased.
C30_EvaluateReturnsResult ==
    /\ ev.iteration <= ev.max_iterations
    /\ Len(ev.evaluation_history) <= ev.max_iterations
    /\ StoppedAtFirst(ev.evaluation_history)
    /\ ev.pc = "returned" =>
          /\ ev.ret # None
          /\ ev.ret[1].iterations_required = Len(ev.ret[1].evaluation_history)
          /\ ev.ret[1].iterations_required <= ev.max_iterations
          /\ ev.ret[1].warning # None
                => LastRoundStillBiased(ev.ret[1].evaluation_history)

====
